---- MODULE Spec2Model ----
(***************************************************************************)
(* Model of the rhxd control-channel server: user-id allocation, the       *)
(* session registry, the per-connection pipeline (handshake, framed loop,  *)
(* teardown), the transaction handlers and the broadcast hub.              *)
(*                                                                         *)
(* Text (nicknames, logins, passwords) is a sequence of bytes 0..255.      *)
(* An Option<T> is a sequence of length 0 (None) or 1 (Some).              *)
(* A 64-bit access mask is the set of its bit positions.                   *)
(***************************************************************************)
EXTENDS Integers, Sequences, FiniteSets, TLC

(***************************************************************************)
(* Bounds of the model                                                     *)
(***************************************************************************)
\* number of TCP connections the clients open during a run; they are numbered
\* in the order the listener accepts them
NumConns == 2
\* total number of inbound frames the clients send during a run
MaxReqs == 2

Conns == 1..NumConns

(***************************************************************************)
(* Program constants                                                       *)
(***************************************************************************)
U16 == 65536
SERVER_VERSION == 197
PROTOCOL_VERSION == 1
PROTOCOL_MAGIC == <<84, 82, 84, 80>>
BROADCAST_CAPACITY == 100
ADMIN_ICON == 410
\* configuration, read-only after start-up
default_max_connections == 100
server_name == <<82, 72, 88>>

\* ErrorCode
NoError == 0
PermissionDenied == 2
NotFound == 3
AlreadyExists == 4
InvalidParameter == 5

\* TransactionType
TT_SendChat == 105
TT_ChatMessage == 106
TT_Login == 107
TT_ShowAgreement == 109
TT_Agreed == 121
TT_ServerMessage == 104
TT_GetUserNameList == 300
TT_NotifyChangeUser == 301
TT_NotifyDeleteUser == 302
TT_UserAccess == 354
TT_KeepConnectionAlive == 500
TT_NewUser == 350
TT_DeleteUser == 351
TT_GetUser == 352
TT_SetUser == 353
TT_GetMessages == 101
TT_InviteNewChat == 112
TT_GetClientInfoText == 303

\* TransactionType::from_u16 is Some exactly on these values
KnownTransactionTypes ==
    (100..122) \cup {200} \cup (202..213) \cup (300..304) \cup (350..355)
    \cup {370, 371, 380, 381, 382, 400, 410, 411, 500}

\* FieldId
F_Data == 101
F_UserName == 102
F_UserId == 103
F_UserIconId == 104
F_UserLogin == 105
F_UserPassword == 106
F_ChatOptions == 109
F_UserAccess == 110
F_Options == 113
F_Version == 160
F_BannerId == 161
F_ServerName == 162
F_UserNameWithInfo == 300

\* AccessPrivileges bit positions
DOWNLOAD_FILES == 2
READ_CHAT == 9
SEND_CHAT == 10
READ_NEWS == 20
DISCONNECT_USERS == 22
CANT_BE_DISCONNECTED == 23
CREATE_USERS == 14
DELETE_USERS == 15
OPEN_USER == 16
MODIFY_USERS == 17
GET_USER_INFO == 24

\* UserFlags / UserOptions bit values
FLAG_ADMIN == 2
FLAG_REFUSED_MESSAGES == 4
FLAG_REFUSED_CHAT == 8

(***************************************************************************)
(* Pure helpers                                                            *)
(***************************************************************************)
None == <<>>
Some(v) == <<v>>

Pow2(n) == IF n = 0 THEN 1 ELSE IF n = 1 THEN 2 ELSE IF n = 2 THEN 4
           ELSE IF n = 3 THEN 8 ELSE IF n = 4 THEN 16 ELSE IF n = 5 THEN 32
           ELSE IF n = 6 THEN 64 ELSE 128

\* bit b (0 = least significant) of the integer v
BitOf(v, b) == (v \div Pow2(b)) % 2

\* AccessPrivileges::all(), admin(), guest()
AccessAll == 0..49
AccessAdmin == AccessAll \ {CANT_BE_DISCONNECTED}
AccessGuest == {READ_CHAT, SEND_CHAT, READ_NEWS, DOWNLOAD_FILES}
\* AccessPrivileges::user(): guest plus CREATE_PRIVATE_CHAT, UPLOAD_FILES,
\* SEND_MESSAGES and SEND_PRIVATE_MESSAGES
AccessUser == AccessGuest \cup {11, 1, 40, 19}

\* AccessPrivileges::to_wire_format on a little-endian host: byte k is the
\* k-th little-endian byte of the mask with its bits reversed, so mask bit
\* 8k+j lands on bit 7-j of byte k.
WireByte(mask, k) ==
    LET bit(j) == IF (8 * k + j) \in mask THEN Pow2(7 - j) ELSE 0
    IN bit(0) + bit(1) + bit(2) + bit(3) + bit(4) + bit(5) + bit(6) + bit(7)

to_wire_format(mask) == [k \in 1..8 |-> WireByte(mask, k - 1)]

\* xor_password: bitwise NOT of every byte
xor_password(data) == [i \in 1..Len(data) |-> 255 - data[i]]

\* verify_password(stored_scrambled, provided)
verify_password(stored, provided) == stored = xor_password(provided)

\* hex::decode: None unless the input has even length and holds only ASCII
\* hex digits; otherwise the decoded bytes
HexVal(b) == IF b >= 48 /\ b <= 57 THEN b - 48
             ELSE IF b >= 97 /\ b <= 102 THEN b - 87
             ELSE IF b >= 65 /\ b <= 70 THEN b - 55
             ELSE -1

hex_decode(data) ==
    IF Len(data) % 2 # 0 \/ \E i \in 1..Len(data) : HexVal(data[i]) < 0
    THEN None
    ELSE Some([i \in 1..(Len(data) \div 2) |->
                 16 * HexVal(data[2 * i - 1]) + HexVal(data[2 * i])])

\* ASCII case folding of SQLite's NOCASE collation
LowerByte(b) == IF b >= 65 /\ b <= 90 THEN b + 32 ELSE b
NoCase(s) == [i \in 1..Len(s) |-> LowerByte(s[i])]

\* decimal digits of n, as format!("{}", n) prints them
RECURSIVE ToDecimal(_)
ToDecimal(n) == IF n < 10 THEN <<48 + n>>
                ELSE ToDecimal(n \div 10) \o <<48 + (n % 10)>>

\* format!("Guest {}", user_id)
GuestName(user_id) == <<71, 117, 101, 115, 116, 32>> \o ToDecimal(user_id)

\* str::trim().is_empty() on ASCII text: only white space
IsBlank(s) == \A i \in 1..Len(s) : s[i] \in {9, 10, 11, 12, 13, 32}

\* String::from_utf8 accepts the bytes: well-formed UTF-8 sequences only
RECURSIVE is_utf8(_)
is_utf8(b) ==
    LET cont(i) == i <= Len(b) /\ b[i] >= 128 /\ b[i] <= 191
        rest(n) == is_utf8(SubSeq(b, n + 1, Len(b)))
    IN IF b = << >> THEN TRUE
       ELSE IF b[1] < 128 THEN rest(1)
       ELSE IF b[1] >= 194 /\ b[1] <= 223 THEN cont(2) /\ rest(2)
       ELSE IF b[1] >= 224 /\ b[1] <= 239
       THEN /\ cont(2) /\ cont(3)
            /\ (b[1] = 224 => b[2] >= 160)
            /\ (b[1] = 237 => b[2] <= 159)
            /\ rest(3)
       ELSE IF b[1] >= 240 /\ b[1] <= 244
       THEN /\ cont(2) /\ cont(3) /\ cont(4)
            /\ (b[1] = 240 => b[2] >= 144)
            /\ (b[1] = 244 => b[2] <= 143)
            /\ rest(4)
       ELSE FALSE

\* i64::from_be_bytes followed by from_bits_truncate: the mask's bit 8k+j is
\* bit j of the byte k places from the end
FromBEBytes(bytes) == {b \in AccessAll : BitOf(bytes[8 - (b \div 8)], b % 8) = 1}

\* i64::to_be_bytes of a mask
BEByte(mask, k) ==
    LET bit(j) == IF (8 * k + j) \in mask THEN Pow2(j) ELSE 0
    IN bit(0) + bit(1) + bit(2) + bit(3) + bit(4) + bit(5) + bit(6) + bit(7)

ToBEBytes(mask) == [i \in 1..8 |-> BEByte(mask, 8 - i)]

\* big-endian bytes of a u16
U16Bytes(v) == <<(v \div 256) % 256, v % 256>>


(***************************************************************************)
(* State                                                                   *)
(***************************************************************************)
VARIABLES
    call,           \* a call of a codec function: its argument and what it returned
    next_user_id,   \* ServerState::next_user_id, an AtomicU16
    sessions,       \* ServerState::sessions: user_id -> Session
    accounts,       \* the account store: a set of rows
    allow_guest,    \* config.security.allow_guest
    max_connections, \* config.server.max_connections
    chan,           \* every event published on broadcast_tx, in publish order
    accepting,      \* Server::run is still in its accept loop
    pc,             \* where each connection task stands
    uid,            \* the task's local user_id (the raw counter value while allocating)
    rx,             \* the task's broadcast_rx: index in chan of the next event it receives
                    \* (0 while the task has no receiver)
    hs,             \* the 12 handshake bytes the client sent, if it sent them
    hs_reply,       \* the 8 handshake reply bytes written to the socket, if any
    req,            \* the frame the task read in its latest loop iteration, if it read one
    wrote,          \* the frames the task wrote in its latest loop iteration, in order
    nreq,           \* the number of frames each client has sent since the initial state
    skipped,        \* the number of events the task was told it lagged behind
    kicked          \* the sessions the operator removed with kick: the connection
                    \* each belonged to and its auth_state at that moment

vars == <<call, next_user_id, sessions, accounts, allow_guest, max_connections, chan, accepting,
          pc, uid, rx, hs, hs_reply, wrote, req, nreq, skipped, kicked>>

\* AuthState
Handshake == "Handshake"
LoginPending == "LoginPending"
Authenticated == "Authenticated"

\* Session::new(user_id, address)
SessionNew(user_id, address) ==
    [user_id |-> user_id, account_id |-> None, nickname |-> GuestName(user_id),
     icon_id |-> 0, flags |-> 0, options |-> 0, address |-> address,
     last_activity |-> 0, auth_state |-> Handshake]

\* Session::complete_handshake
complete_handshake(s) == [s EXCEPT !.auth_state = LoginPending]

\* Session::authenticate_guest(nickname, icon_id)
authenticate_guest(s, nickname, icon_id) ==
    [s EXCEPT !.nickname = nickname, !.icon_id = icon_id, !.auth_state = Authenticated]

\* Session::authenticate_user(account_id, nickname, icon_id)
authenticate_user(s, account_id, nickname, icon_id) ==
    [s EXCEPT !.account_id = Some(account_id), !.nickname = nickname,
              !.icon_id = icon_id, !.auth_state = Authenticated]

\* Session::touch: last_activity becomes the current time (the ordinal of the
\* frame being read, a logical clock)
touch(s, now) == [s EXCEPT !.last_activity = now]

\* Session::is_authenticated
is_authenticated(s) == s.auth_state = Authenticated

\* ServerState::register_session: insert, replacing any entry under the same key
register_session(map, s) ==
    [k \in (DOMAIN map) \cup {s.user_id} |-> IF k = s.user_id THEN s ELSE map[k]]

\* a faulty unregister_session, which leaves the entry in the map
unregister_session_keeps_entry(map, user_id) == map

\* ServerState::unregister_session: the map without the key
unregister_session(map, user_id) ==
    [k \in (DOMAIN map) \ {user_id} |-> map[k]]

\* get_session_mut(user_id) followed by a mutation: nothing happens if absent
UpdateSession(map, user_id, f(_)) ==
    [k \in DOMAIN map |-> IF k = user_id THEN f(map[k]) ELSE map[k]]

\* ServerState::session_count
session_count(map) == Cardinality(DOMAIN map)

\* BroadcastMessage
UserJoined(user_id, nickname) ==
    [kind |-> "UserJoined", user_id |-> user_id, text |-> nickname, is_emote |-> FALSE]
UserLeft(user_id) ==
    [kind |-> "UserLeft", user_id |-> user_id, text |-> <<>>, is_emote |-> FALSE]
ChatMessage(sender_id, message, is_emote) ==
    [kind |-> "ChatMessage", user_id |-> sender_id, text |-> message, is_emote |-> is_emote]
ServerShutdown ==
    [kind |-> "ServerShutdown", user_id |-> 0, text |-> <<>>, is_emote |-> FALSE]
ServerMessage(message) ==
    [kind |-> "ServerMessage", user_id |-> 0, text |-> message, is_emote |-> FALSE]

\* a faulty hub, which puts new events before the ones it holds
broadcast_in_front(log, events) == events \o log

\* ServerState::broadcast: append the events to the hub, never blocking
broadcast(log, events) == log \o events

(***************************************************************************)
(* The account store                                                       *)
(***************************************************************************)
\* cmd_create_account(login, password, level): the row the console creates;
\* the stored hash is xor_password of the password, the name is the login
ConsoleAccount(id, login, password, access) ==
    [id |-> id, login |-> login, password_hash |-> xor_password(password),
     name |-> login, access |-> access]

\* Account::access_privileges: from_bits_truncate keeps the defined bits
access_privileges(account) == account.access \cap AccessAll

\* get_account_by_login: WHERE login = ? COLLATE NOCASE
get_account_by_login(store, login) ==
    LET hit == {a \in store : NoCase(a.login) = NoCase(login)}
    IN IF hit = {} THEN None ELSE Some(CHOOSE a \in hit : TRUE)

\* get_account_by_id: WHERE id = ?
get_account_by_id(store, id) ==
    LET hit == {a \in store : a.id = id}
    IN IF hit = {} THEN None ELSE Some(CHOOSE a \in hit : TRUE)

\* account_exists: SELECT COUNT(*) ... WHERE login = ? COLLATE NOCASE
account_exists(store, login) == \E a \in store : NoCase(a.login) = NoCase(login)

\* the rowid SQLite gives the next inserted row: one more than the largest
NextRowId(store) ==
    IF store = {} THEN 1
    ELSE 1 + (CHOOSE i \in {a.id : a \in store} : \A a \in store : a.id <= i)

\* create_account bails out on a login or a name longer than 31
create_account_fails(login, name) == Len(login) > 31 \/ Len(name) > 31

\* create_account: INSERT INTO accounts
create_account(store, login, password_hash, name, access) ==
    store \cup {[id |-> NextRowId(store), login |-> login, password_hash |-> password_hash,
                 name |-> name, access |-> access]}

\* update_password: UPDATE accounts SET password_hash = ? WHERE id = ?
update_password(store, id, password_hash) ==
    {IF a.id = id THEN [a EXCEPT !.password_hash = password_hash] ELSE a : a \in store}

\* update_access: UPDATE accounts SET access = ? WHERE id = ?
update_access(store, id, access) ==
    {IF a.id = id THEN [a EXCEPT !.access = access] ELSE a : a \in store}

\* delete_account: DELETE FROM accounts WHERE id = ?
delete_account(store, id) == {a \in store : a.id # id}

\* Passwords the operator typed at the console: "p" and the two-byte UTF-8
\* character CF 9E, whose complement is the ASCII text "0a"
PasswordP == <<112>>
PasswordHexComplement == <<207, 158>>

\* Accounts created with the console before the run:
\*   create-account a p user      create-account b <CF 9E> admin
InitialAccounts ==
    {ConsoleAccount(1, <<97>>, PasswordP, AccessUser),
     ConsoleAccount(2, <<98>>, PasswordHexComplement, AccessAdmin)}


(***************************************************************************)
(* Transactions                                                            *)
(***************************************************************************)
IntField(id, v) == [id |-> id, kind |-> "Integer", val |-> v]
StrField(id, v) == [id |-> id, kind |-> "String", val |-> v]
BinField(id, v) == [id |-> id, kind |-> "Binary", val |-> v]

\* create_server_transaction(transaction_type, fields)
create_server_transaction(transaction_type, fields) ==
    [flags |-> 0, is_reply |-> FALSE, type |-> transaction_type, id |-> 0,
     error_code |-> 0, fields |-> fields]

\* a faulty create_error_reply, which does not echo the request's id
create_error_reply_without_id(request, error_code) ==
    [flags |-> 0, is_reply |-> TRUE, type |-> request.type, id |-> 0,
     error_code |-> error_code, fields |-> <<>>]

\* create_error_reply(request, error_code)
create_error_reply(request, error_code) ==
    [flags |-> 0, is_reply |-> TRUE, type |-> request.type, id |-> request.id,
     error_code |-> error_code, fields |-> <<>>]

\* create_success_reply(request, fields)
create_success_reply(request, fields) ==
    [flags |-> 0, is_reply |-> TRUE, type |-> request.type, id |-> request.id,
     error_code |-> 0, fields |-> fields]

\* the value a handler's field loop ends with: the last field with this id,
\* read with as_binary / as_string / as_integer (None if of another kind)
RECURSIVE LastField(_, _, _)
LastField(fields, id, kind) ==
    IF fields = <<>> THEN None
    ELSE LET f == fields[Len(fields)]
         IN IF f.id = id
            THEN (IF f.kind = kind THEN Some(f.val) ELSE None)
            ELSE LastField(SubSeq(fields, 1, Len(fields) - 1), id, kind)

\* fields.iter().find(|f| f.id == id).and_then(as_binary): the first field
\* with this id, None if it is not binary
RECURSIVE FirstBinary(_, _)
FirstBinary(fields, id) ==
    IF fields = <<>> THEN None
    ELSE IF fields[1].id = id
    THEN (IF fields[1].kind = "Binary" THEN Some(fields[1].val) ELSE None)
    ELSE FirstBinary(Tail(fields), id)

\* what a handler hands back to the loop: the registry, the events it
\* published, and its result (Ok(Some(reply)), Ok(None) or Err)
Outcome(map, events, reply) == [sessions |-> map, events |-> events, reply |-> reply, err |-> FALSE]
Failed(map, events) == [sessions |-> map, events |-> events, reply |-> None, err |-> TRUE]

(***************************************************************************)
(* Handlers                                                                *)
(***************************************************************************)
\* UserOptions::from_i16: from_bits_truncate keeps the three defined bits
UserOptionsFromI16(value) == value % 8

\* UserOptions::to_user_flags
to_user_flags(options) ==
    (IF BitOf(options, 0) = 1 THEN FLAG_REFUSED_MESSAGES ELSE 0)
    + (IF BitOf(options, 1) = 1 THEN FLAG_REFUSED_CHAT ELSE 0)

\* the reply fields of a successful Login
LoginReplyFields(user_id, access) ==
    <<IntField(F_Version, SERVER_VERSION), IntField(F_UserId, user_id),
      BinField(F_UserAccess, to_wire_format(access)), IntField(F_BannerId, 0),
      StrField(F_ServerName, server_name)>>

\* handle_login(transaction, user_id, state)
handle_login(transaction, user_id, map, store, guests) ==
    LET login == LastField(transaction.fields, F_UserLogin, "Binary")
        password == LastField(transaction.fields, F_UserPassword, "Binary")
        is_guest == (login = None \/ login[1] = <<>>) \/ (password = None \/ password[1] = <<>>)
    IN IF is_guest /\ ~guests
       THEN Outcome(map, <<>>, Some(create_error_reply(transaction, PermissionDenied)))
       ELSE IF is_guest
       THEN Outcome(UpdateSession(map, user_id,
                        LAMBDA s : authenticate_guest(s, GuestName(user_id), 0)),
                    <<>>,
                    Some(create_success_reply(transaction,
                                              LoginReplyFields(user_id, AccessGuest))))
       ELSE LET login_str == xor_password(login[1])
                password_bytes == xor_password(password[1])
                account == get_account_by_login(store, login_str)
            IN IF account = None
               THEN Outcome(map, <<>>, Some(create_error_reply(transaction, PermissionDenied)))
               ELSE LET password_hash == hex_decode(account[1].password_hash)
                    IN IF password_hash = None
                       THEN Failed(map, <<>>)
                       ELSE IF verify_password(password_hash[1], password_bytes)
                       THEN Outcome(UpdateSession(map, user_id,
                                        LAMBDA s : authenticate_user(s, account[1].id,
                                                                     account[1].name, 0)),
                                    <<>>,
                                    Some(create_success_reply(transaction,
                                            LoginReplyFields(user_id,
                                                             access_privileges(account[1])))))
                       ELSE Outcome(map, <<>>,
                                    Some(create_error_reply(transaction, PermissionDenied)))

\* the access mask handle_agreed and the UserAccess push look up: the
\* account's when the session names an account the store still holds, the
\* guest preset otherwise (no session, no account_id, no such account)
CurrentAccess(map, store, user_id) ==
    IF user_id \notin DOMAIN map THEN AccessGuest
    ELSE IF map[user_id].account_id = None THEN AccessGuest
    ELSE LET account == get_account_by_id(store, map[user_id].account_id[1])
         IN IF account = None THEN AccessGuest ELSE access_privileges(account[1])

\* handle_agreed(transaction, user_id, state)
handle_agreed(transaction, user_id, map, store) ==
    IF user_id \notin DOMAIN map
    THEN Outcome(map, <<>>, None)
    ELSE LET name_field == LastField(transaction.fields, F_UserName, "String")
             icon_field == LastField(transaction.fields, F_UserIconId, "Integer")
             opts_field == LastField(transaction.fields, F_Options, "Integer")
             user_options == IF opts_field = None THEN 0 ELSE UserOptionsFromI16(opts_field[1])
             nickname == IF name_field # None /\ ~IsBlank(name_field[1])
                         THEN name_field[1] ELSE GuestName(user_id)
             icon0 == IF icon_field = None THEN 0 ELSE icon_field[1] % U16
             is_admin == DISCONNECT_USERS \in CurrentAccess(map, store, user_id)
             flags == to_user_flags(user_options) + (IF is_admin THEN FLAG_ADMIN ELSE 0)
             icon_id == IF is_admin /\ icon0 = 0 THEN ADMIN_ICON ELSE icon0
         IN Outcome(UpdateSession(map, user_id,
                        LAMBDA s : [s EXCEPT !.nickname = nickname, !.icon_id = icon_id,
                                             !.flags = flags, !.options = user_options]),
                    <<UserJoined(user_id, nickname)>>,
                    Some([flags |-> 0, is_reply |-> TRUE, type |-> TT_Agreed,
                          id |-> transaction.id, error_code |-> NoError, fields |-> <<>>]))

\* a faulty handle_send_chat, which publishes without looking at auth_state
handle_send_chat_from_anyone(transaction, user_id, map) ==
    IF user_id \notin DOMAIN map THEN Failed(map, <<>>)
    ELSE LET message_data == LastField(transaction.fields, F_Data, "Binary")
             opts_field == LastField(transaction.fields, F_ChatOptions, "Integer")
             is_emote == opts_field # None /\ opts_field[1] % 2 = 1
         IN IF message_data = None THEN Failed(map, <<>>)
            ELSE Outcome(map, <<ChatMessage(user_id, message_data[1], is_emote)>>, None)

\* handle_send_chat(transaction, user_id, state)
handle_send_chat(transaction, user_id, map) ==
    IF user_id \notin DOMAIN map THEN Failed(map, <<>>)
    ELSE IF ~is_authenticated(map[user_id]) THEN Outcome(map, <<>>, None)
    ELSE LET message_data == LastField(transaction.fields, F_Data, "Binary")
             opts_field == LastField(transaction.fields, F_ChatOptions, "Integer")
             is_emote == opts_field # None /\ opts_field[1] % 2 = 1
         IN IF message_data = None THEN Failed(map, <<>>)
            ELSE Outcome(map, <<ChatMessage(user_id, message_data[1], is_emote)>>, None)

\* the UserNameWithInfo bytes of one roster entry
UserInfoBytes(user_id, icon_id, flags, nickname) ==
    U16Bytes(user_id) \o U16Bytes(icon_id) \o U16Bytes(flags)
    \o U16Bytes(Len(nickname)) \o nickname

\* the keys of the authenticated entries, in iteration order (by key here)
RECURSIVE RosterFields(_, _)
RosterFields(map, keys) ==
    IF keys = {} THEN <<>>
    ELSE LET k == CHOOSE x \in keys : \A y \in keys : x <= y
             s == map[k]
         IN <<BinField(F_UserNameWithInfo,
                       UserInfoBytes(s.user_id, s.icon_id, s.flags, s.nickname))>>
            \o RosterFields(map, keys \ {k})

\* handle_get_user_name_list(transaction, user_id, state)
handle_get_user_name_list(transaction, user_id, map) ==
    IF user_id \notin DOMAIN map THEN Outcome(map, <<>>, None)
    ELSE Outcome(map, <<>>,
                 Some([flags |-> 0, is_reply |-> TRUE, type |-> TT_GetUserNameList,
                       id |-> transaction.id, error_code |-> NoError,
                       fields |-> RosterFields(map,
                                    {k \in DOMAIN map : is_authenticated(map[k])})]))

\* a faulty default arm, which answers an unhandled type with an error reply
unhandled_with_error(transaction, map) ==
    Outcome(map, <<>>, Some(create_error_reply(transaction, 1)))

\* the default arm of the dispatch: a warning is logged, Ok(None)
unhandled(transaction, map) == Outcome(map, <<>>, None)

\* a handler's result together with the account store it leaves
WithStore(result, store) ==
    [sessions |-> result.sessions, events |-> result.events, reply |-> result.reply,
     err |-> result.err, accounts |-> store]

\* check_privilege(state, user_id, required): false without a session,
\* without an account_id (a guest) or without the account
check_privilege(map, store, user_id, required) ==
    IF user_id \notin DOMAIN map THEN FALSE
    ELSE IF map[user_id].account_id = None THEN FALSE
    ELSE LET account == get_account_by_id(store, map[user_id].account_id[1])
         IN account # None /\ required \in access_privileges(account[1])

\* the UserAccess field as the account handlers read it: eight bytes or nothing
AccessField(fields) ==
    LET f == LastField(fields, F_UserAccess, "Binary")
    IN IF f = None \/ Len(f[1]) # 8 THEN None ELSE Some(FromBEBytes(f[1]))

\* handle_new_user(transaction, user_id, state)
handle_new_user(transaction, user_id, map, store) ==
    IF ~check_privilege(map, store, user_id, CREATE_USERS)
    THEN WithStore(Outcome(map, <<>>, Some(create_error_reply(transaction, PermissionDenied))),
                   store)
    ELSE LET login == LastField(transaction.fields, F_UserLogin, "Binary")
             password == LastField(transaction.fields, F_UserPassword, "Binary")
             name == LastField(transaction.fields, F_UserName, "String")
             access_field == AccessField(transaction.fields)
             access == IF access_field = None THEN {} ELSE access_field[1]
         IN IF login = None \/ password = None \/ name = None
            THEN WithStore(Failed(map, <<>>), store)
            ELSE LET login_str == xor_password(login[1])
                     password_bytes == xor_password(password[1])
                 IN IF ~is_utf8(login_str)
                    THEN WithStore(Failed(map, <<>>), store)
                    ELSE IF login_str = << >>
                    THEN WithStore(Outcome(map, <<>>,
                                       Some(create_error_reply(transaction, InvalidParameter))),
                                   store)
                    ELSE IF account_exists(store, login_str)
                    THEN WithStore(Outcome(map, <<>>,
                                       Some(create_error_reply(transaction, AlreadyExists))),
                                   store)
                    ELSE IF create_account_fails(login_str, name[1])
                    THEN WithStore(Failed(map, <<>>), store)
                    ELSE WithStore(Outcome(map, <<>>,
                                       Some(create_success_reply(transaction, <<>>))),
                                   create_account(store, login_str, password_bytes,
                                                  name[1], access))

\* handle_get_user(transaction, user_id, state)
handle_get_user(transaction, user_id, map, store) ==
    IF ~check_privilege(map, store, user_id, OPEN_USER)
    THEN WithStore(Outcome(map, <<>>, Some(create_error_reply(transaction, PermissionDenied))),
                   store)
    ELSE LET login == FirstBinary(transaction.fields, F_UserLogin)
         IN IF login = None \/ ~is_utf8(xor_password(login[1]))
            THEN WithStore(Failed(map, <<>>), store)
            ELSE LET account == get_account_by_login(store, xor_password(login[1]))
                 IN IF account = None
                    THEN WithStore(Outcome(map, <<>>,
                                       Some(create_error_reply(transaction, NotFound))),
                                   store)
                    ELSE WithStore(Outcome(map, <<>>,
                                       Some(create_success_reply(transaction,
                                           <<StrField(F_UserName, account[1].name),
                                             BinField(F_UserLogin,
                                                      xor_password(account[1].login)),
                                             BinField(F_UserAccess,
                                                      ToBEBytes(account[1].access))>>))),
                                   store)

\* handle_set_user(transaction, user_id, state): the password and the access
\* mask are updated if given, the name never
handle_set_user(transaction, user_id, map, store) ==
    IF ~check_privilege(map, store, user_id, MODIFY_USERS)
    THEN WithStore(Outcome(map, <<>>, Some(create_error_reply(transaction, PermissionDenied))),
                   store)
    ELSE LET login == LastField(transaction.fields, F_UserLogin, "Binary")
             password == LastField(transaction.fields, F_UserPassword, "Binary")
             access == AccessField(transaction.fields)
         IN IF login = None \/ ~is_utf8(xor_password(login[1]))
            THEN WithStore(Failed(map, <<>>), store)
            ELSE LET account == get_account_by_login(store, xor_password(login[1]))
                 IN IF account = None
                    THEN WithStore(Outcome(map, <<>>,
                                       Some(create_error_reply(transaction, NotFound))),
                                   store)
                    ELSE LET store1 == IF password = None THEN store
                                       ELSE update_password(store, account[1].id,
                                                            xor_password(password[1]))
                             store2 == IF access = None THEN store1
                                       ELSE update_access(store1, account[1].id, access[1])
                         IN WithStore(Outcome(map, <<>>,
                                          Some(create_success_reply(transaction, <<>>))),
                                      store2)

\* a faulty handle_delete_user, which deletes the account before it has
\* looked at the requester's privilege
handle_delete_user_unchecked(transaction, user_id, map, store) ==
    LET login == FirstBinary(transaction.fields, F_UserLogin)
        account == IF login = None \/ ~is_utf8(xor_password(login[1])) THEN None
                   ELSE get_account_by_login(store, xor_password(login[1]))
        store1 == IF account = None THEN store ELSE delete_account(store, account[1].id)
    IN IF ~check_privilege(map, store, user_id, DELETE_USERS)
       THEN WithStore(Outcome(map, <<>>,
                          Some(create_error_reply(transaction, PermissionDenied))), store1)
       ELSE IF login = None \/ ~is_utf8(xor_password(login[1]))
       THEN WithStore(Failed(map, <<>>), store)
       ELSE IF account = None
       THEN WithStore(Outcome(map, <<>>, Some(create_error_reply(transaction, NotFound))),
                      store)
       ELSE WithStore(Outcome(map, <<>>, Some(create_success_reply(transaction, <<>>))),
                      store1)

\* handle_delete_user(transaction, user_id, state)
handle_delete_user(transaction, user_id, map, store) ==
    IF ~check_privilege(map, store, user_id, DELETE_USERS)
    THEN WithStore(Outcome(map, <<>>, Some(create_error_reply(transaction, PermissionDenied))),
                   store)
    ELSE LET login == FirstBinary(transaction.fields, F_UserLogin)
         IN IF login = None \/ ~is_utf8(xor_password(login[1]))
            THEN WithStore(Failed(map, <<>>), store)
            ELSE LET account == get_account_by_login(store, xor_password(login[1]))
                 IN IF account = None
                    THEN WithStore(Outcome(map, <<>>,
                                       Some(create_error_reply(transaction, NotFound))),
                                   store)
                    ELSE WithStore(Outcome(map, <<>>,
                                       Some(create_success_reply(transaction, <<>>))),
                                   delete_account(store, account[1].id))

\* handle_transaction(transaction, user_id, state): the dispatch
handle_transaction(transaction, user_id, map, store, guests) ==
    CASE transaction.type = TT_Login ->
             WithStore(handle_login(transaction, user_id, map, store, guests), store)
      [] transaction.type = TT_Agreed ->
             WithStore(handle_agreed(transaction, user_id, map, store), store)
      [] transaction.type = TT_SendChat ->
             WithStore(handle_send_chat(transaction, user_id, map), store)
      [] transaction.type = TT_GetUserNameList ->
             WithStore(handle_get_user_name_list(transaction, user_id, map), store)
      [] transaction.type = TT_NewUser -> handle_new_user(transaction, user_id, map, store)
      [] transaction.type = TT_GetUser -> handle_get_user(transaction, user_id, map, store)
      [] transaction.type = TT_SetUser -> handle_set_user(transaction, user_id, map, store)
      [] transaction.type = TT_DeleteUser ->
             handle_delete_user(transaction, user_id, map, store)
      [] OTHER -> WithStore(unhandled(transaction, map), store)

(***************************************************************************)
(* The frames the clients send                                             *)
(***************************************************************************)
Request(type, id, fields) ==
    [flags |-> 0, is_reply |-> FALSE, type |-> type, id |-> id, error_code |-> 0,
     fields |-> fields]

\* a Login carrying the scrambled login and password
LoginRequest(id, login, password) ==
    Request(TT_Login, id, <<BinField(F_UserLogin, xor_password(login)),
                            BinField(F_UserPassword, xor_password(password))>>)

\* the password whose scrambled form is the byte 0A, the hex decoding of the
\* hash stored for account b
PasswordOfB == <<245>>
PasswordX == <<120>>
NickAl == <<65, 108>>
TextHi == <<104, 105>>

\* the frames a client may send as its next frame, numbered id
ClientFrames(id) ==
    {Request(TT_Login, id, <<BinField(F_UserLogin, <<>>), BinField(F_UserPassword, <<>>)>>),
     LoginRequest(id, <<97>>, PasswordX),
     LoginRequest(id, <<98>>, PasswordOfB),
     LoginRequest(id, <<98>>, PasswordP),
     LoginRequest(id, <<122>>, PasswordP),
     Request(TT_Agreed, id, <<StrField(F_UserName, NickAl), IntField(F_UserIconId, 0),
                              IntField(F_Options, 1)>>),
     Request(TT_SendChat, id, <<BinField(F_Data, TextHi)>>),
     Request(TT_GetUserNameList, id, <<>>),
     Request(TT_KeepConnectionAlive, id, <<>>),
     Request(999, id, <<>>)}

\* FieldId::from_u16 is Some exactly on these values
KnownFieldIds ==
    (101..116) \cup (151..155) \cup {160, 161, 162} \cup (200..215) \cup {300}
    \cup (320..333) \cup {335, 3587, 3588, 3771, 3772}

\* decode_fields meets a field whose id FieldId::from_u16 does not know
UnknownFieldIn(fields) == \E i \in 1..Len(fields) : fields[i].id \notin KnownFieldIds

\* TransactionCodec::decode on a complete frame: an error when from_u16
\* does not know the type, or when decode_fields does not know a field id
DecodeFails(frame) ==
    frame.type \notin KnownTransactionTypes \/ UnknownFieldIn(frame.fields)

(***************************************************************************)
(* Initial state and the connection pipeline                               *)
(***************************************************************************)
\* number of commands (kick, shutdown) the operator issues during a run
MaxCommands == 1

\* ServerState::new, with the accounts already in the store and no client
\* connected yet
InitCommon ==
    /\ call = None
    /\ sessions = << >>
    /\ accounts = InitialAccounts
    /\ allow_guest \in BOOLEAN
    /\ chan = << >>
    /\ accepting = TRUE
    /\ pc = [c \in Conns |-> "idle"]
    /\ uid = [c \in Conns |-> 0]
    /\ rx = [c \in Conns |-> 0]
    /\ hs = [c \in Conns |-> None]
    /\ hs_reply = [c \in Conns |-> None]
    /\ wrote = [c \in Conns |-> << >>]
    /\ req = [c \in Conns |-> None]
    /\ nreq = [c \in Conns |-> 0]
    /\ skipped = [c \in Conns |-> 0]
    /\ kicked = {}

\* The server after 65534 connections have been accepted and have gone
\* again before logging in: the counter stands at its last value before the
\* wrap, the registry is empty and nothing has been published.
Init ==
    /\ next_user_id = U16 - 1
    /\ max_connections = default_max_connections
    /\ InitCommon

\* the end of handle_connection after the loop: unregister_session, and
\* UserLeft if a session was removed and it was authenticated
TeardownSessions(map, user_id) == unregister_session(map, user_id)

\* a faulty teardown, which publishes UserLeft for any session it removes
TeardownEventsAnySession(map, user_id) ==
    IF user_id \in DOMAIN map THEN <<UserLeft(user_id)>> ELSE << >>

TeardownEvents(map, user_id) ==
    IF user_id \in DOMAIN map /\ is_authenticated(map[user_id])
    THEN <<UserLeft(user_id)>> ELSE << >>

\* a faulty limit test, which never finds the server full
LimitNeverReached(map, limit) == FALSE

\* Server::run's test before it spawns a task: session_count() >= max_connections
LimitReached(map, limit) == session_count(map) >= limit

\* Server::run accepts a connection: dropped at the limit, else a task is spawned
Accept(c) ==
    /\ accepting
    /\ pc[c] = "idle"
    /\ \A d \in Conns : d < c => pc[d] # "idle"
    /\ pc' = [pc EXCEPT ![c] = IF LimitReached(sessions, max_connections)
                                THEN "closed" ELSE "spawned"]
    /\ UNCHANGED <<call, next_user_id, sessions, accounts, allow_guest, max_connections, chan, accepting, uid, rx,
                   hs, hs_reply, wrote, req, nreq, skipped, kicked>>

\* a faulty test, which lets the fetched id 0 through
WrapsAtMaxOnly(id) == id = U16 - 1

\* allocate_user_id, the test on the fetched id: id == 0 || id == u16::MAX
WrapsAt(id) == id = 0 \/ id = U16 - 1

\* allocate_user_id, one loop iteration up to the test: fetch_add(1), then
\* either the wrap branch (store still to come) or the fetched id
AllocFetch(c) ==
    /\ pc[c] = "spawned"
    /\ next_user_id' = (next_user_id + 1) % U16
    /\ uid' = [uid EXCEPT ![c] = next_user_id]
    /\ pc' = [pc EXCEPT ![c] = IF WrapsAt(next_user_id)
                                THEN "alloc_wrap" ELSE "alloc_check"]
    /\ UNCHANGED <<call, sessions, accounts, allow_guest, max_connections, chan, accepting, rx, hs, hs_reply, wrote,
                   req, nreq, skipped, kicked>>

\* allocate_user_id, wrap branch: store(1) and continue with id 1
AllocWrap(c) ==
    /\ pc[c] = "alloc_wrap"
    /\ next_user_id' = 1
    /\ uid' = [uid EXCEPT ![c] = 1]
    /\ pc' = [pc EXCEPT ![c] = "alloc_check"]
    /\ UNCHANGED <<call, sessions, accounts, allow_guest, max_connections, chan, accepting, rx, hs, hs_reply, wrote,
                   req, nreq, skipped, kicked>>

\* allocate_user_id, the test: return the id if no session has it, else loop
AllocCheck(c) ==
    /\ pc[c] = "alloc_check"
    /\ pc' = [pc EXCEPT ![c] = IF uid[c] \notin DOMAIN sessions
                                THEN "register" ELSE "spawned"]
    /\ UNCHANGED <<call, next_user_id, sessions, accounts, allow_guest, max_connections, chan, accepting, uid, rx,
                   hs, hs_reply, wrote, req, nreq, skipped, kicked>>

\* handle_connection: Session::new and register_session
Register(c) ==
    /\ pc[c] = "register"
    /\ sessions' = register_session(sessions, SessionNew(uid[c], c))
    /\ pc' = [pc EXCEPT ![c] = "handshake"]
    /\ UNCHANGED <<call, next_user_id, accounts, allow_guest, max_connections, chan, accepting, uid, rx, hs, hs_reply,
                   wrote, req, nreq, skipped, kicked>>

\* Handshake::to_bytes: magic, sub-protocol (u32), version (u16), sub-version (u16)
HandshakeBytes(protocol_id, version) ==
    protocol_id \o <<0, 0, 0, 0>> \o U16Bytes(version) \o U16Bytes(2)

\* Handshake::from_bytes: the fields perform_handshake looks at
HandshakeMagic(bytes) == SubSeq(bytes, 1, 4)
HandshakeVersion(bytes) == 256 * bytes[9] + bytes[10]

\* HandshakeReply::to_bytes: the magic and the error code as a big-endian u32
HandshakeReplyBytes(error_code) ==
    PROTOCOL_MAGIC \o <<0, 0>> \o U16Bytes(error_code)

\* the 12 bytes a client may send: the magic "TRTP" or "FAKE", version 1 or 99
FakeMagic == <<70, 65, 75, 69>>
OtherVersion == 99
ClientHandshakes ==
    {HandshakeBytes(m, v) : m \in {PROTOCOL_MAGIC, FakeMagic},
                            v \in {PROTOCOL_VERSION, OtherVersion}}

\* a faulty perform_handshake, which tests the version before the magic
perform_handshake_version_first(bytes) ==
    IF HandshakeVersion(bytes) # PROTOCOL_VERSION THEN 2
    ELSE IF HandshakeMagic(bytes) # PROTOCOL_MAGIC THEN 1
    ELSE 0

\* perform_handshake on the 12 bytes read: the error code of its reply
\* (1 invalid magic, 2 unsupported version, 0 success)
perform_handshake(bytes) ==
    IF HandshakeMagic(bytes) # PROTOCOL_MAGIC THEN 1
    ELSE IF HandshakeVersion(bytes) # PROTOCOL_VERSION THEN 2
    ELSE 0

\* perform_handshake succeeds: the 12 bytes are accepted and the reply is
\* written; complete_handshake if the session is still there, then the task
\* subscribes to the hub and enters the loop
HandshakeOk(c) ==
    /\ pc[c] = "handshake"
    /\ \E bytes \in ClientHandshakes :
          /\ perform_handshake(bytes) = 0
          /\ hs' = [hs EXCEPT ![c] = Some(bytes)]
          /\ hs_reply' = [hs_reply EXCEPT ![c] = Some(HandshakeReplyBytes(0))]
    /\ sessions' = UpdateSession(sessions, uid[c], complete_handshake)
    /\ rx' = [rx EXCEPT ![c] = Len(chan) + 1]
    /\ pc' = [pc EXCEPT ![c] = "loop"]
    /\ UNCHANGED <<call, next_user_id, accounts, allow_guest, max_connections, chan, accepting, uid,
                   wrote, req, nreq, skipped, kicked>>

\* perform_handshake fails: the 12 bytes are refused (the error reply is
\* written, or its write fails), or they are accepted and the write of the
\* reply fails; the session is unregistered and the task returns
HandshakeFail(c) ==
    /\ pc[c] = "handshake"
    /\ \E bytes \in ClientHandshakes, written \in BOOLEAN :
          /\ perform_handshake(bytes) = 0 => ~written
          /\ hs' = [hs EXCEPT ![c] = Some(bytes)]
          /\ hs_reply' = [hs_reply EXCEPT ![c] =
                             IF written THEN Some(HandshakeReplyBytes(perform_handshake(bytes)))
                             ELSE None]
    /\ sessions' = unregister_session(sessions, uid[c])
    /\ pc' = [pc EXCEPT ![c] = "closed"]
    /\ UNCHANGED <<call, next_user_id, accounts, allow_guest, max_connections, chan, accepting, uid,
                   rx, wrote, req, nreq, skipped, kicked>>

\* read_exact fails: the client hangs up before it has sent 12 bytes; no
\* reply is written, the session is unregistered and the task returns
HandshakeEof(c) ==
    /\ pc[c] = "handshake"
    /\ sessions' = unregister_session(sessions, uid[c])
    /\ pc' = [pc EXCEPT ![c] = "closed"]
    /\ UNCHANGED <<call, next_user_id, accounts, allow_guest, max_connections, chan, accepting, uid,
                   rx, hs, hs_reply, wrote, req, nreq, skipped, kicked>>

(***************************************************************************)
(* The framed loop                                                         *)
(***************************************************************************)
RECURSIVE SumOver(_, _)
SumOver(f, S) ==
    IF S = {} THEN 0
    ELSE LET c == CHOOSE x \in S : TRUE IN f[c] + SumOver(f, S \ {c})

\* the frames the clients have sent so far
TotalReqs == SumOver(nreq, Conns)

\* the task breaks out of the loop and runs the teardown on the given
\* registry and hub
LeaveLoop(c, map, log) ==
    /\ sessions' = TeardownSessions(map, uid[c])
    /\ chan' = broadcast(log, TeardownEvents(map, uid[c]))
    /\ pc' = [pc EXCEPT ![c] = "closed"]
    /\ rx' = [rx EXCEPT ![c] = 0]

\* the pushes the loop writes after a reply
ShowAgreementPush == create_server_transaction(TT_ShowAgreement, <<StrField(F_Data, << >>)>>)
UserAccessPush(access) ==
    create_server_transaction(TT_UserAccess, <<BinField(F_UserAccess, to_wire_format(access))>>)

\* a faulty loop body, which writes the reply after its push
FramesToWritePushFirst(request, result, store, user_id) ==
    IF result.reply = None THEN << >>
    ELSE LET reply == result.reply[1]
         IN (IF request.type = TT_Login /\ reply.error_code = 0
             THEN <<ShowAgreementPush>> ELSE << >>)
            \o (IF request.type = TT_Agreed /\ reply.error_code = 0
                THEN <<UserAccessPush(CurrentAccess(result.sessions, store, user_id))>>
                ELSE << >>)
            \o <<reply>>

\* what the loop writes for a handler result: the reply, then ShowAgreement
\* after a Login reply with error 0, then UserAccess after an Agreed reply
\* with error 0 (the mask read from the registry after the reply)
FramesToWrite(request, result, store, user_id) ==
    IF result.reply = None THEN << >>
    ELSE LET reply == result.reply[1]
         IN <<reply>>
            \o (IF request.type = TT_Login /\ reply.error_code = 0
                THEN <<ShowAgreementPush>> ELSE << >>)
            \o (IF request.type = TT_Agreed /\ reply.error_code = 0
                THEN <<UserAccessPush(CurrentAccess(result.sessions, store, user_id))>>
                ELSE << >>)

\* a faulty Err arm, which breaks out of the loop
LoopEndsAfterError(result) == FALSE

\* the Err(e) arm of the dispatch: the error is logged and the loop goes on
LoopGoesOnAfterError(result) == TRUE

\* the inbound arm on one frame.  A frame that does not decode ends the
\* loop.  Otherwise touch, dispatch, and write the frames one by one; the
\* first failed send ends the loop.
ReadFrame(c, frame) ==
    /\ nreq' = [nreq EXCEPT ![c] = @ + 1]
    /\ req' = [req EXCEPT ![c] = Some(frame)]
    /\ IF DecodeFails(frame)
       THEN /\ LeaveLoop(c, sessions, chan)
            /\ wrote' = [wrote EXCEPT ![c] = << >>]
            /\ accounts' = accounts
       ELSE \E result \in {handle_transaction(
                                frame, uid[c],
                                UpdateSession(sessions, uid[c],
                                              LAMBDA s : touch(s, nreq[c] + 1)),
                                accounts, allow_guest)} :
            LET log == broadcast(chan, result.events)
                frames == FramesToWrite(frame, result, result.accounts, uid[c])
            IN /\ accounts' = result.accounts
               /\ IF result.err /\ ~LoopGoesOnAfterError(result)
                  THEN /\ LeaveLoop(c, result.sessions, log)
                       /\ wrote' = [wrote EXCEPT ![c] = << >>]
                  ELSE \E written \in 0..Len(frames) :
                          /\ wrote' = [wrote EXCEPT ![c] = SubSeq(frames, 1, written)]
                          /\ IF written < Len(frames)
                             THEN LeaveLoop(c, result.sessions, log)
                             ELSE /\ sessions' = result.sessions
                                  /\ chan' = log
                                  /\ UNCHANGED <<pc, rx>>
    /\ UNCHANGED <<call, next_user_id, allow_guest, max_connections, accepting, uid, hs, hs_reply,
                   skipped, kicked>>

\* the inbound arm: the client sends its next frame and the task reads it
Inbound(c) ==
    /\ pc[c] = "loop"
    /\ TotalReqs < MaxReqs
    /\ \E frame \in ClientFrames(nreq[c] + 1) : ReadFrame(c, frame)

\* the client closes its socket: framed.next() yields None and the loop ends
ClientClose(c) ==
    /\ pc[c] = "loop"
    /\ LeaveLoop(c, sessions, chan)
    /\ req' = [req EXCEPT ![c] = None]
    /\ wrote' = [wrote EXCEPT ![c] = << >>]
    /\ UNCHANGED <<call, next_user_id, accounts, allow_guest, max_connections, accepting, uid, hs, hs_reply, nreq,
                   skipped, kicked>>

\* String::from_utf8_lossy(bytes): the well-formed sequences are kept; an
\* ill-formed one is replaced, up to the byte that breaks it, by U+FFFD
RECURSIVE from_utf8_lossy(_)
from_utf8_lossy(b) ==
    LET at(i) == IF i <= Len(b) THEN b[i] ELSE 0
        cont(i) == at(i) >= 128 /\ at(i) <= 191
        second == CASE at(1) = 224 -> at(2) >= 160 /\ at(2) <= 191
                    [] at(1) = 237 -> at(2) >= 128 /\ at(2) <= 159
                    [] at(1) = 240 -> at(2) >= 144 /\ at(2) <= 191
                    [] at(1) = 244 -> at(2) >= 128 /\ at(2) <= 143
                    [] OTHER -> cont(2)
        width == IF at(1) < 128 THEN 1
                 ELSE IF at(1) >= 194 /\ at(1) <= 223 THEN 2
                 ELSE IF at(1) >= 224 /\ at(1) <= 239 THEN 3
                 ELSE IF at(1) >= 240 /\ at(1) <= 244 THEN 4
                 ELSE 0
        good == IF width = 0 \/ width = 1 THEN 1
                ELSE IF ~second THEN 1
                ELSE IF width = 2 THEN 2
                ELSE IF ~cont(3) THEN 2
                ELSE IF width = 3 THEN 3
                ELSE IF ~cont(4) THEN 3
                ELSE 4
        whole == width > 0 /\ good = width
    IN IF b = << >> THEN << >>
       ELSE (IF whole THEN SubSeq(b, 1, width) ELSE <<239, 191, 189>>)
            \o from_utf8_lossy(SubSeq(b, good + 1, Len(b)))

\* a faulty format, which pads the nickname on the right
Pad13Left(nickname) ==
    LET t == SubSeq(nickname, 1, IF Len(nickname) < 13 THEN Len(nickname) ELSE 13)
    IN t \o [i \in 1..(13 - Len(t)) |-> 32]

\* format!("{:>13.13}", nickname): at most 13 characters, right-aligned
Pad13(nickname) ==
    LET t == SubSeq(nickname, 1, IF Len(nickname) < 13 THEN Len(nickname) ELSE 13)
    IN [i \in 1..(13 - Len(t)) |-> 32] \o t

\* a faulty UserJoined arm, which also notifies the user who joined
UserJoinedFrameToAll(e, user_id, map) ==
    LET icon_id == IF e.user_id \in DOMAIN map THEN map[e.user_id].icon_id ELSE 0
        flags == IF e.user_id \in DOMAIN map THEN map[e.user_id].flags ELSE 0
    IN Some(create_server_transaction(TT_NotifyChangeUser,
                <<BinField(F_UserNameWithInfo,
                           UserInfoBytes(e.user_id, icon_id, flags, e.text))>>))

\* the UserJoined arm: nothing for the user who joined, else NotifyChangeUser
\* with the icon and flags the registry holds now (0, 0 if the session is gone)
UserJoinedFrame(e, user_id, map) ==
    IF e.user_id = user_id THEN None
    ELSE LET icon_id == IF e.user_id \in DOMAIN map THEN map[e.user_id].icon_id ELSE 0
             flags == IF e.user_id \in DOMAIN map THEN map[e.user_id].flags ELSE 0
         IN Some(create_server_transaction(TT_NotifyChangeUser,
                     <<BinField(F_UserNameWithInfo,
                                UserInfoBytes(e.user_id, icon_id, flags, e.text))>>))

\* the broadcast arm's conversion of an event into a frame, if any
BroadcastFrame(e, user_id, map) ==
    CASE e.kind = "ChatMessage" ->
           LET sender_nickname ==
                   IF e.user_id \in DOMAIN map THEN map[e.user_id].nickname
                   ELSE <<85, 115, 101, 114, 32>> \o ToDecimal(e.user_id)
               message_text == from_utf8_lossy(e.text)
               formatted ==
                   IF e.is_emote
                   THEN <<13, 32, 42, 42, 42, 32>> \o sender_nickname \o <<32>> \o message_text
                   ELSE <<13>> \o Pad13(sender_nickname) \o <<58, 32, 32>> \o message_text
           IN Some(create_server_transaction(TT_ChatMessage,
                       <<BinField(F_Data, formatted), IntField(F_UserId, e.user_id),
                         StrField(F_UserName, sender_nickname)>>))
      [] e.kind = "UserJoined" -> UserJoinedFrame(e, user_id, map)
      [] e.kind = "UserLeft" ->
           Some(create_server_transaction(TT_NotifyDeleteUser, <<IntField(F_UserId, e.user_id)>>))
      [] e.kind = "ServerMessage" ->
           Some(create_server_transaction(TT_ServerMessage, <<StrField(F_Data, e.text)>>))
      [] OTHER -> None

\* a faulty Lagged arm, which breaks out of the loop as the Closed arm does
LoopEndsAfterLagged(n) == FALSE

\* the Err(RecvError::Lagged(n)) arm: a warning with n is logged and the loop
\* goes on
LoopGoesOnAfterLagged(n) == TRUE

\* the broadcast arm: recv() yields Lagged when the task is more than the
\* channel's capacity behind, else the next event; ServerShutdown ends the
\* loop, any other event is converted and sent, a failed send ends the loop
Recv(c) ==
    /\ pc[c] = "loop"
    /\ rx[c] <= Len(chan)
    /\ IF Len(chan) - rx[c] + 1 > BROADCAST_CAPACITY
       THEN LET n == Len(chan) - BROADCAST_CAPACITY + 1 - rx[c]
            IN /\ skipped' = [skipped EXCEPT ![c] = @ + n]
               /\ wrote' = [wrote EXCEPT ![c] = << >>]
               /\ IF LoopGoesOnAfterLagged(n)
                  THEN /\ rx' = [rx EXCEPT ![c] = @ + n]
                       /\ UNCHANGED <<sessions, chan, pc>>
                  ELSE LeaveLoop(c, sessions, chan)
       ELSE LET e == chan[rx[c]]
                tx == BroadcastFrame(e, uid[c], sessions)
            IN /\ skipped' = skipped
               /\ IF e.kind = "ServerShutdown"
                  THEN LeaveLoop(c, sessions, chan) /\ wrote' = [wrote EXCEPT ![c] = << >>]
                  ELSE IF tx = None
                  THEN /\ wrote' = [wrote EXCEPT ![c] = << >>]
                       /\ rx' = [rx EXCEPT ![c] = @ + 1]
                       /\ UNCHANGED <<sessions, chan, pc>>
                  ELSE \E sent \in BOOLEAN :
                          IF sent
                          THEN /\ wrote' = [wrote EXCEPT ![c] = tx]
                               /\ rx' = [rx EXCEPT ![c] = @ + 1]
                               /\ UNCHANGED <<sessions, chan, pc>>
                          ELSE /\ LeaveLoop(c, sessions, chan)
                               /\ wrote' = [wrote EXCEPT ![c] = << >>]
    /\ req' = [req EXCEPT ![c] = None]
    /\ UNCHANGED <<call, next_user_id, accounts, allow_guest, max_connections, accepting, uid, hs, hs_reply, nreq, kicked>>

(***************************************************************************)
(* The operator and the server's shutdown                                  *)
(***************************************************************************)
\* the ids the operator names in a kick command
KickTargets == 1..(NumConns + 1)

\* the commands the operator has issued so far
Commands == Cardinality(kicked) + (IF accepting THEN 0 ELSE 1)

\* the access lookup of handle_agreed and of the UserAccess push: what the
\* task holds while it awaits get_account_by_id.  The Ref that get_session
\* returned is bound by `if let Some(session)` and lives to the end of that
\* block, which contains the await.
HeldOverQuery(user_id) == Some(user_id)

\* per connection: the key of the session entry its task holds a Ref to,
\* which it does from get_session to the end of the block around the await
guard ==
    [c \in Conns |-> IF pc[c] \in {"agreed_query", "push_query"}
                     THEN HeldOverQuery(uid[c]) ELSE None]

\* no task other than that of connection c holds a Ref to the entry of
\* user_id: get_mut and remove on the entry wait until this is so
Unguarded(user_id, c) == \A d \in Conns \ {c} : guard[d] # Some(user_id)

\* cmd_kick(target) with the target's id: the session must exist; it is
\* unregistered (once no task holds a Ref to the entry) and UserLeft is
\* published, whatever its auth_state
Kick(user_id) ==
    /\ Commands < MaxCommands
    /\ user_id \in DOMAIN sessions
    /\ Unguarded(user_id, 0)
    /\ sessions' = unregister_session(sessions, user_id)
    /\ chan' = broadcast(chan, <<UserLeft(user_id)>>)
    /\ kicked' = kicked \cup {[conn |-> sessions[user_id].address,
                                auth_state |-> sessions[user_id].auth_state]}
    /\ UNCHANGED <<call, next_user_id, accounts, allow_guest, max_connections, accepting, pc, uid, rx, hs, hs_reply,
                   wrote, req, nreq, skipped>>

\* Server::run leaves the accept loop and publishes ServerShutdown
Shutdown ==
    /\ Commands < MaxCommands
    /\ accepting
    /\ accepting' = FALSE
    /\ chan' = broadcast(chan, <<ServerShutdown>>)
    /\ UNCHANGED <<call, next_user_id, sessions, accounts, allow_guest, max_connections, pc, uid, rx, hs, hs_reply,
                   wrote, req, nreq, skipped, kicked>>

Next ==
    \/ \E c \in Conns : Accept(c)
    \/ \E c \in Conns : AllocFetch(c)
    \/ \E c \in Conns : AllocWrap(c)
    \/ \E c \in Conns : AllocCheck(c)
    \/ \E c \in Conns : Register(c)
    \/ \E c \in Conns : HandshakeOk(c)
    \/ \E c \in Conns : HandshakeFail(c)
    \/ \E c \in Conns : HandshakeEof(c)
    \/ \E c \in Conns : Inbound(c)
    \/ \E c \in Conns : ClientClose(c)
    \/ \E c \in Conns : Recv(c)
    \/ \E user_id \in KickTargets : Kick(user_id)
    \/ Shutdown

Spec == Init /\ [][Next]_vars

(***************************************************************************)
(* The id counter from any value it rests at                               *)
(***************************************************************************)
\* the values the counter starts from: fresh, and shortly before the wrap
StartCounters == {1, 2, U16 - 3, U16 - 2, U16 - 1}

\* The server has handed out ids up to some point and no connection is open.
InitAlloc ==
    /\ next_user_id \in StartCounters
    /\ max_connections = default_max_connections
    /\ InitCommon

\* connections are accepted, get their id, register and go away again
NextAlloc ==
    \/ \E c \in Conns : Accept(c)
    \/ \E c \in Conns : AllocFetch(c)
    \/ \E c \in Conns : AllocWrap(c)
    \/ \E c \in Conns : AllocCheck(c)
    \/ \E c \in Conns : Register(c)
    \/ \E c \in Conns : HandshakeEof(c)

SpecAlloc == InitAlloc /\ [][NextAlloc]_vars

(***************************************************************************)
(* The codec: frames as bytes                                              *)
(***************************************************************************)
MAX_TRANSACTION_SIZE == 32768
TransactionHeader_SIZE == 20
FieldHeader_SIZE == 4

\* put_u32 and put_i32: the big-endian bytes of the low 32 bits
U32Bytes(v) == U16Bytes((v \div 65536) % 65536) \o U16Bytes(v % 65536)

\* a buffer: the bytes it starts with, and the number of zero bytes after them
Buffer(bytes, fill) == [bytes |-> bytes, fill |-> fill]
BufLen(src) == Len(src.bytes) + src.fill

\* the byte at position i of a buffer, and get_u16 / get_u32 at position i
At(src, i) == IF i <= Len(src.bytes) THEN src.bytes[i] ELSE 0
U16At(src, i) == 256 * At(src, i) + At(src, i + 1)
U32At(src, i) == 65536 * U16At(src, i) + U16At(src, i + 2)

\* the n bytes of a buffer from position i on
Slice(src, i, n) == [k \in 1..n |-> At(src, i + k - 1)]

\* TransactionHeader::from_bytes
header_from_bytes(src) ==
    [flags |-> At(src, 1), is_reply |-> At(src, 2), transaction_type |-> U16At(src, 3),
     id |-> U32At(src, 5), error_code |-> U32At(src, 9), total_size |-> U32At(src, 13),
     data_size |-> U32At(src, 17)]

\* TransactionHeader::to_bytes
header_to_bytes(header) ==
    <<header.flags, header.is_reply>> \o U16Bytes(header.transaction_type)
    \o U32Bytes(header.id) \o U32Bytes(header.error_code)
    \o U32Bytes(header.total_size) \o U32Bytes(header.data_size)

\* the field ids decode_fields reads as integers, and as strings
IntegerFieldIds == {103, 104, 114, 109, 113, 112, 160, 107, 116}
StringFieldIds == {102, 162, 115, 201, 210}

\* get_i16 and get_i32 of an unsigned value
AsI16(v) == IF v >= 32768 THEN v - 65536 ELSE v
AsI32(high, low) == 65536 * AsI16(high) + low

\* decode_fields, the match on the field id: the variant a field's bytes
\* are given
decode_field_data(field_id, data) ==
    IF field_id \in IntegerFieldIds
    THEN IF Len(data) = 2 THEN IntField(field_id, AsI16(256 * data[1] + data[2]))
         ELSE IF Len(data) = 4
         THEN IntField(field_id, AsI32(256 * data[1] + data[2], 256 * data[3] + data[4]))
         ELSE BinField(field_id, data)
    ELSE IF field_id \in StringFieldIds
    THEN IF is_utf8(data) THEN StrField(field_id, data) ELSE BinField(field_id, data)
    ELSE BinField(field_id, data)

\* decode_fields, the loop: left fields are still to read from position pos
\* of a buffer that ends at position last
RECURSIVE decode_field_list(_, _, _, _)
decode_field_list(src, last, pos, left) ==
    IF left = 0 THEN [err |-> "", fields |-> << >>]
    ELSE IF last - pos + 1 < FieldHeader_SIZE THEN [err |-> "InvalidFieldData", fields |-> << >>]
    ELSE LET id == U16At(src, pos)
             size == U16At(src, pos + 2)
         IN IF last - (pos + 3) < size THEN [err |-> "InvalidFieldData", fields |-> << >>]
            ELSE IF id \notin KnownFieldIds THEN [err |-> "InvalidFieldId", fields |-> << >>]
            ELSE LET rest == decode_field_list(src, last, pos + 4 + size, left - 1)
                 IN IF rest.err # "" THEN rest
                    ELSE [err |-> "",
                          fields |-> <<decode_field_data(id, Slice(src, pos + 4, size))>>
                                     \o rest.fields]

\* decode_fields(buf), for the bytes of src from position first to last
decode_fields(src, first, last) ==
    IF last < first THEN [err |-> "", fields |-> << >>]
    ELSE IF last - first + 1 < 2 THEN [err |-> "InvalidFieldData", fields |-> << >>]
    ELSE decode_field_list(src, last, first + 2, U16At(src, first))

\* encode_fields, the bytes of one field's data: an integer takes two bytes
\* if it fits an i16, else four
encode_field_data(field) ==
    IF field.kind = "Integer"
    THEN IF field.val >= -32768 /\ field.val <= 32767
         THEN U16Bytes(field.val % 65536) ELSE U32Bytes(field.val)
    ELSE field.val

RECURSIVE encode_field_list(_)
encode_field_list(fields) ==
    IF fields = << >> THEN << >>
    ELSE LET field_buf == encode_field_data(fields[1])
         IN U16Bytes(fields[1].id) \o U16Bytes(Len(field_buf) % 65536) \o field_buf
            \o encode_field_list(Tail(fields))

\* encode_fields(fields, buf)
encode_fields(fields) == U16Bytes(Len(fields) % 65536) \o encode_field_list(fields)

\* TransactionCodec::encode(item, dst)
encode(item) ==
    LET fields_buf == encode_fields(item.fields)
        data_size == Len(fields_buf)
    IN header_to_bytes([flags |-> item.flags,
                        is_reply |-> IF item.is_reply THEN 1 ELSE 0,
                        transaction_type |-> item.type, id |-> item.id,
                        error_code |-> item.error_code, total_size |-> data_size,
                        data_size |-> data_size])
       \o fields_buf

\* what decode returns: Ok(None) with the number of bytes it reserved,
\* Ok(Some(item)), or an error
NeedMore(reserved) == [status |-> "None", reserved |-> reserved, item |-> None]
Decoded(item) == [status |-> "Some", reserved |-> 0, item |-> Some(item)]
DecodeError(e) == [status |-> e, reserved |-> 0, item |-> None]

\* TransactionCodec::decode(src)
decode(src) ==
    IF BufLen(src) < TransactionHeader_SIZE THEN NeedMore(0)
    ELSE LET header == header_from_bytes(src)
             total_needed == TransactionHeader_SIZE + header.data_size
         IN IF BufLen(src) < total_needed THEN NeedMore(total_needed - BufLen(src))
            ELSE IF header.data_size > MAX_TRANSACTION_SIZE THEN DecodeError("TransactionTooLarge")
            ELSE IF header.transaction_type \notin KnownTransactionTypes
            THEN DecodeError("InvalidTransactionType")
            ELSE LET got == decode_fields(src, TransactionHeader_SIZE + 1, total_needed)
                 IN IF got.err # "" THEN DecodeError(got.err)
                    ELSE Decoded([flags |-> header.flags, is_reply |-> header.is_reply # 0,
                                  type |-> header.transaction_type, id |-> header.id,
                                  error_code |-> header.error_code, fields |-> got.fields])

\* the buffer without its first n bytes
Drop(src, n) ==
    IF n <= Len(src.bytes) THEN Buffer(SubSeq(src.bytes, n + 1, Len(src.bytes)), src.fill)
    ELSE Buffer(<< >>, src.fill - (n - Len(src.bytes)))

\* a faulty decode, which takes the header out of the buffer before the
\* payload is there
decode_rest_header_first(src) ==
    IF BufLen(src) < TransactionHeader_SIZE THEN src
    ELSE LET header == header_from_bytes(src)
             total_needed == TransactionHeader_SIZE + header.data_size
         IN IF BufLen(src) < total_needed THEN Drop(src, TransactionHeader_SIZE)
            ELSE IF header.data_size > MAX_TRANSACTION_SIZE THEN src
            ELSE IF header.transaction_type \notin KnownTransactionTypes
            THEN Drop(src, TransactionHeader_SIZE)
            ELSE Drop(src, total_needed)

\* TransactionCodec::decode(src), what it leaves in src: the header is
\* peeked; advance(20) and split_to(data_size) come after the two size tests
decode_rest(src) ==
    IF BufLen(src) < TransactionHeader_SIZE THEN src
    ELSE LET header == header_from_bytes(src)
             total_needed == TransactionHeader_SIZE + header.data_size
         IN IF BufLen(src) < total_needed THEN src
            ELSE IF header.data_size > MAX_TRANSACTION_SIZE THEN src
            ELSE IF header.transaction_type \notin KnownTransactionTypes
            THEN Drop(src, TransactionHeader_SIZE)
            ELSE Drop(src, total_needed)

\* AccessPrivileges::from_wire_format on a little-endian host: the bits of
\* each byte are reversed, the bytes are read little-endian, and
\* from_bits_truncate keeps the defined bits
from_wire_format(bytes) ==
    {b \in AccessAll : BitOf(bytes[(b \div 8) + 1], 7 - (b % 8)) = 1}

(***************************************************************************)
(* Calls of the codec functions                                            *)
(***************************************************************************)
\* a data_size far above the limit
HugeSize == 2000000000

\* the data_size a client may put in a header
DataSizes == {0, 1, 2, 6, MAX_TRANSACTION_SIZE, MAX_TRANSACTION_SIZE + 1, HugeSize}

\* a header with this data_size, followed by as much of a payload (a field
\* count of 0 and zero bytes) as the client has sent so far
FrameStart(data_size, sent) ==
    Buffer(header_to_bytes([flags |-> 0, is_reply |-> 0, transaction_type |-> TT_SendChat,
                            id |-> 1, error_code |-> 0, total_size |-> data_size,
                            data_size |-> data_size]),
           sent)

\* a whole frame with this payload
Frame(payload) ==
    Buffer(header_to_bytes([flags |-> 0, is_reply |-> 0, transaction_type |-> TT_SendChat,
                            id |-> 1, error_code |-> 0, total_size |-> Len(payload),
                            data_size |-> Len(payload)])
           \o payload, 0)

\* payloads: a count of 1 with no field, with a field cut short, with its
\* field, and with its field and one or four more bytes; a count of 0 and
\* one more byte
Payloads ==
    {<<0, 1>>, <<0, 1, 0, F_Data, 0>>, <<0, 1, 0, F_Data, 0, 2, 104>>,
     <<0, 1, 0, F_Data, 0, 2, 104, 105>>, <<0, 1, 0, F_Data, 0, 2, 104, 105, 0>>,
     <<0, 1, 0, F_Data, 0, 2, 104, 105, 0, F_Data, 0, 0>>, <<0, 0, 0>>}

\* the buffers decode is called on: part of a header, or a header and 0, 1,
\* all but one, all, or one more than all of the bytes it announces; whole
\* frames with the payloads above
Buffers ==
    {Frame(payload) : payload \in Payloads} \cup
    {Buffer(<< >>, 0), Buffer(<<0, 0, 0, TT_SendChat>>, 0), Buffer(<<0, 0, 0, TT_SendChat>>, 15)}
    \cup {FrameStart(d, sent) : d \in DataSizes, sent \in {0, 1}}
    \cup {FrameStart(d, d - 1) : d \in DataSizes \ {0}}
    \cup {FrameStart(d, d) : d \in DataSizes}
    \cup {FrameStart(d, d + 1) : d \in DataSizes}

\* the fields a transaction may carry: the ones the server and the clients
\* build (integers of both widths and negative, names, texts, a text sent as
\* a string, the banner id sent as an integer) and binary fields whose bytes
\* read as a string or an integer
FieldPool ==
    {IntField(F_UserId, 2), IntField(F_UserId, 40000), IntField(F_ChatOptions, -1),
     StrField(F_UserName, NickAl), BinField(F_UserName, <<255>>), BinField(F_UserName, NickAl),
     BinField(F_Data, TextHi), StrField(F_Data, TextHi), IntField(F_BannerId, 0),
     BinField(F_UserLogin, << >>), BinField(F_UserId, <<0, 2>>), BinField(F_UserId, <<1>>)}

\* the transactions encode is called on
Transactions ==
    {[flags |-> 0, is_reply |-> r, type |-> t, id |-> i, error_code |-> e, fields |-> f] :
        r \in BOOLEAN, t \in {TT_SendChat, TT_Login}, i \in {0, 2147483647}, e \in {0, PermissionDenied},
        f \in {<< >>} \cup {<<x>> : x \in FieldPool}
              \cup {<<IntField(F_UserId, 2), y>> : y \in FieldPool}}

\* the masks to_wire_format is called on; 50 and 63 are not defined flags
MaskBits == {0, 7, 8, 24, 49, 50, 63}
Masks == SUBSET MaskBits

\* the byte order of the build
Endians == {"little", "big"}

\* the frames a stream is made of, as bytes: a SendChat with its text, a
\* keep-alive as encode writes it (a field count of 0), and a keep-alive
\* with no payload at all
StreamFrames ==
    {encode(Request(TT_SendChat, 1, <<BinField(F_Data, TextHi)>>)),
     encode(Request(TT_KeepConnectionAlive, 2, << >>)),
     header_to_bytes([flags |-> 0, is_reply |-> 0, transaction_type |-> TT_KeepConnectionAlive,
                      id |-> 3, error_code |-> 0, total_size |-> 0, data_size |-> 0])}

\* the streams a client sends: one frame, or two frames back to back
Streams == StreamFrames \cup {a \o b : a \in StreamFrames, b \in StreamFrames}

\* the sizes of the chunks a read may bring
ChunkSizes == {1, 19, 20, 21, 30}

\* a connection's read side before any byte of the stream has arrived: the
\* bytes fed to the buffer so far, the buffer, the transactions decoded,
\* whether a decode failed, and whether a decode found part of a frame
Reading == [fed |-> 0, buf |-> Buffer(<< >>, 0), out |-> << >>, failed |-> FALSE,
            waited |-> FALSE]

\* One call is about to be made, or a stream is about to arrive.
InitBench ==
    /\ call \in ({[op |-> "decode", arg |-> b, endian |-> "", ret |-> None] : b \in Buffers}
                 \cup {[op |-> "stream", arg |-> t, endian |-> "", ret |-> Some(Reading)] :
                          t \in Streams}
                 \cup {[op |-> "round_trip", arg |-> t, endian |-> "", ret |-> None] :
                          t \in Transactions}
                 \cup {[op |-> "wire", arg |-> m, endian |-> e, ret |-> None] :
                          m \in Masks, e \in Endians})
    /\ next_user_id = 1
    /\ max_connections = default_max_connections
    /\ sessions = << >>
    /\ accounts = InitialAccounts
    /\ allow_guest = TRUE
    /\ chan = << >>
    /\ accepting = TRUE
    /\ pc = [c \in Conns |-> "idle"]
    /\ uid = [c \in Conns |-> 0]
    /\ rx = [c \in Conns |-> 0]
    /\ hs = [c \in Conns |-> None]
    /\ hs_reply = [c \in Conns |-> None]
    /\ wrote = [c \in Conns |-> << >>]
    /\ req = [c \in Conns |-> None]
    /\ nreq = [c \in Conns |-> 0]
    /\ skipped = [c \in Conns |-> 0]
    /\ kicked = {}

\* the server and its connections, which a call of a codec function leaves alone
ServerVars ==
    <<next_user_id, sessions, accounts, allow_guest, max_connections, chan, accepting,
      pc, uid, rx, hs, hs_reply, wrote, req, nreq, skipped, kicked>>

\* decode is called on a buffer
CallDecode ==
    /\ call.op = "decode" /\ call.ret = None
    /\ call' = [call EXCEPT !.ret = Some(decode(call.arg))]
    /\ UNCHANGED ServerVars

\* a transaction is encoded into an empty buffer and the buffer is decoded
CallRoundTrip ==
    /\ call.op = "round_trip" /\ call.ret = None
    /\ call' = [call EXCEPT !.ret = Some(decode(Buffer(encode(call.arg), 0)))]
    /\ UNCHANGED ServerVars

\* a mask is put in wire format and read back, on a build of either byte
\* order: the wire bytes and the mask read from them
CallWire ==
    /\ call.op = "wire" /\ call.ret = None
    /\ call' = [call EXCEPT !.ret =
                   IF call.endian = "little"
                   THEN Some([wire |-> to_wire_format(call.arg),
                              mask |-> from_wire_format(to_wire_format(call.arg))])
                   ELSE Some([wire |-> ToBEBytes(call.arg),
                              mask |-> FromBEBytes(ToBEBytes(call.arg))])]
    /\ UNCHANGED ServerVars

\* a read brings the next n bytes of the stream (or what is left of it)
\* into the buffer
StreamArrive(n) ==
    /\ call.op = "stream"
    /\ call.ret[1].fed < Len(call.arg)
    /\ LET r == call.ret[1]
           upto == IF r.fed + n < Len(call.arg) THEN r.fed + n ELSE Len(call.arg)
       IN call' = [call EXCEPT !.ret = Some([r EXCEPT
                      !.fed = upto,
                      !.buf = Buffer(r.buf.bytes \o SubSeq(call.arg, r.fed + 1, upto), 0)])]
    /\ UNCHANGED ServerVars

\* Framed calls decode on the buffer; a transaction is handed on, Ok(None)
\* waits for the next read, an error ends the stream
StreamDecode ==
    /\ call.op = "stream"
    /\ ~call.ret[1].failed
    /\ LET r == call.ret[1]
           got == decode(r.buf)
       IN /\ got.status = "None" => r.buf.bytes # << >> /\ ~r.waited
          /\ call' = [call EXCEPT !.ret = Some([r EXCEPT
                         !.buf = decode_rest(r.buf),
                         !.out = r.out \o got.item,
                         !.failed = got.status \notin {"None", "Some"},
                         !.waited = r.waited \/ got.status = "None"])]
    /\ UNCHANGED ServerVars

NextBench ==
    \/ CallDecode
    \/ CallRoundTrip
    \/ CallWire
    \/ \E n \in ChunkSizes : StreamArrive(n)
    \/ StreamDecode

SpecBench == InitBench /\ [][NextBench]_vars

\* The same server configured with max_connections = 1, so that the limit
\* is met as soon as one session is registered.
SmallLimit == 1

InitLimit ==
    /\ next_user_id = U16 - 1
    /\ max_connections = SmallLimit
    /\ InitCommon

SpecLimit == InitLimit /\ [][Next]_vars

(***************************************************************************)
(* A server with a backlog on the broadcast hub                            *)
(***************************************************************************)
\* the registry after connections 1..n were accepted with the ids 1..n and
\* completed the handshake
RECURSIVE AfterHandshakes(_)
AfterHandshakes(n) ==
    IF n = 0 THEN << >>
    ELSE register_session(AfterHandshakes(n - 1), complete_handshake(SessionNew(n, n)))

\* the registry after connections 1..n then logged in as guests
RECURSIVE AfterGuestLogins(_, _)
AfterGuestLogins(map, n) ==
    IF n = 0 THEN map
    ELSE handle_login(Request(TT_Login, 1, << >>), n, AfterGuestLogins(map, n - 1),
                      InitialAccounts, TRUE).sessions

\* one event less than the hub's capacity
BacklogLen == BROADCAST_CAPACITY - 1

\* the events connection 1 has published by sending SendChat BacklogLen times
Backlog == [i \in 1..BacklogLen |-> ChatMessage(1, TextHi, FALSE)]

\* what is common to the servers whose connections are all in their loops
InitEstablished ==
    /\ call = None
    /\ next_user_id = NumConns + 1
    /\ max_connections = default_max_connections
    /\ accounts = InitialAccounts
    /\ accepting = TRUE
    /\ pc = [c \in Conns |-> "loop"]
    /\ uid = [c \in Conns |-> c]
    /\ hs = [c \in Conns |-> Some(HandshakeBytes(PROTOCOL_MAGIC, PROTOCOL_VERSION))]
    /\ hs_reply = [c \in Conns |-> Some(HandshakeReplyBytes(0))]
    /\ wrote = [c \in Conns |-> << >>]
    /\ req = [c \in Conns |-> None]
    /\ nreq = [c \in Conns |-> 0]
    /\ skipped = [c \in Conns |-> 0]
    /\ kicked = {}

\* Guests are allowed and every connection has logged in as a guest.
\* Connection 1 has sent BacklogLen chat messages and received them all; the
\* other connections have not received any of them yet (their sockets are
\* slow).
InitHub ==
    /\ InitEstablished
    /\ allow_guest = TRUE
    /\ sessions = AfterGuestLogins(AfterHandshakes(NumConns), NumConns)
    /\ chan = Backlog
    /\ rx = [c \in Conns |-> IF c = 1 THEN BacklogLen + 1 ELSE 1]

\* the inbound arm when the client's next frame is a SendChat
InboundChat(c) ==
    /\ pc[c] = "loop"
    /\ TotalReqs < MaxReqs
    /\ ReadFrame(c, Request(TT_SendChat, nreq[c] + 1, <<BinField(F_Data, TextHi)>>))

NextHub ==
    \/ \E c \in Conns : InboundChat(c)
    \/ \E c \in Conns : ClientClose(c)
    \/ \E c \in Conns : Recv(c)

SpecHub == InitHub /\ [][NextHub]_vars

(***************************************************************************)
(* A server with an administrator logged in                                *)
(***************************************************************************)
\* the registry after connection 1 logged in to the account b
AfterAdminLogin(map) ==
    handle_login(LoginRequest(1, <<98>>, PasswordOfB), 1, map, InitialAccounts, FALSE).sessions

\* Guests are not allowed.  Connection 1 has logged in to the account b,
\* which has every privilege of an administrator; the other connections
\* have completed the handshake and have not logged in.
InitAdmin ==
    /\ InitEstablished
    /\ allow_guest = FALSE
    /\ sessions = AfterAdminLogin(AfterHandshakes(NumConns))
    /\ chan = << >>
    /\ rx = [c \in Conns |-> 1]

\* "Administrator": a nickname of 14 characters with its final 1
NickLong == <<65, 100, 109, 105, 110, 105, 115, 116, 114, 97, 116, 111, 114, 49>>
\* a text that is not UTF-8: h and the byte 255
TextBroken == <<104, 255>>

\* a field id FieldId::from_u16 does not know
UnknownFieldId == 9999

\* the scrambled login field of an account request
LoginField(login) == BinField(F_UserLogin, xor_password(login))

\* the frames a client may send as its next frame, numbered id: account
\* requests with and without their fields, naming the accounts a and b, the
\* unused logins c and z and the empty login; SendChat with and without its
\* text; a Login to the account a; requests of types the dispatch has no arm
\* for (keep-alive, news, private chat, client info); a SendChat that also
\* carries a field with an id outside the field table; SendChat with
\* ChatOptions 1 and 0 and with a text that is not UTF-8; an Agreed that
\* takes a nickname of 14 characters
AdminFrames(id) ==
    {Request(TT_NewUser, id, <<LoginField(<<99>>), BinField(F_UserPassword, xor_password(PasswordP)),
                               StrField(F_UserName, NickAl),
                               BinField(F_UserAccess, ToBEBytes(AccessAdmin))>>),
     Request(TT_NewUser, id, <<LoginField(<<97>>), BinField(F_UserPassword, xor_password(PasswordP)),
                               StrField(F_UserName, NickAl)>>),
     Request(TT_NewUser, id, <<LoginField(<<99>>), BinField(F_UserPassword, xor_password(PasswordP))>>),
     Request(TT_NewUser, id, <<LoginField(<< >>), BinField(F_UserPassword, xor_password(PasswordP)),
                               StrField(F_UserName, NickAl)>>),
     Request(TT_GetUser, id, <<LoginField(<<97>>)>>),
     Request(TT_GetUser, id, <<LoginField(<<122>>)>>),
     Request(TT_GetUser, id, << >>),
     Request(TT_SetUser, id, <<LoginField(<<97>>), BinField(F_UserAccess, ToBEBytes(AccessGuest))>>),
     Request(TT_SetUser, id, <<LoginField(<<122>>)>>),
     Request(TT_SetUser, id, << >>),
     Request(TT_DeleteUser, id, <<LoginField(<<98>>)>>),
     Request(TT_DeleteUser, id, <<LoginField(<<122>>)>>),
     Request(TT_DeleteUser, id, << >>),
     Request(TT_SendChat, id, <<BinField(F_Data, TextHi)>>),
     Request(TT_SendChat, id, <<IntField(F_ChatOptions, 1)>>),
     LoginRequest(id, <<97>>, PasswordX),
     Request(TT_KeepConnectionAlive, id, << >>),
     Request(TT_GetMessages, id, << >>),
     Request(TT_InviteNewChat, id, <<IntField(F_UserId, 2)>>),
     Request(TT_GetClientInfoText, id, <<IntField(F_UserId, 1)>>),
     Request(TT_GetClientInfoText, id, <<IntField(F_UserId, 2)>>),
     Request(TT_SendChat, id, <<BinField(F_Data, TextHi), BinField(UnknownFieldId, <<1>>)>>),
     Request(TT_SendChat, id, <<BinField(F_Data, TextHi), IntField(F_ChatOptions, 1)>>),
     Request(TT_SendChat, id, <<BinField(F_Data, TextHi), IntField(F_ChatOptions, 0)>>),
     Request(TT_SendChat, id, <<BinField(F_Data, TextBroken)>>),
     Request(TT_Agreed, id, <<StrField(F_UserName, NickLong)>>)}

\* the inbound arm when the client's next frame is one of these
InboundAdmin(c) ==
    /\ pc[c] = "loop"
    /\ TotalReqs < MaxReqs
    /\ \E frame \in AdminFrames(nreq[c] + 1) : ReadFrame(c, frame)

NextAdmin ==
    \/ \E c \in Conns : InboundAdmin(c)
    \/ \E c \in Conns : ClientClose(c)
    \/ \E c \in Conns : Recv(c)

SpecAdmin == InitAdmin /\ [][NextAdmin]_vars

(***************************************************************************)
(* allocate_user_id against a registry that is nearly full                 *)
(***************************************************************************)
\* the counter and the ids the registry lacks (it holds every other id of
\* 1..65534) when allocate_user_id is called: the counter fresh, at 0, at
\* the wrap and shortly before it; the free id first, last, just behind
\* the counter, or one of two
ScanInputs ==
    {[counter |-> 0, free |-> {1}],
     [counter |-> 1, free |-> {1}],
     [counter |-> U16 - 1, free |-> {1}],
     [counter |-> U16 - 3, free |-> {1}],
     [counter |-> 2, free |-> {1}],
     [counter |-> U16 - 3, free |-> {U16 - 4}],
     [counter |-> 1, free |-> {3, U16 - 2}],
     [counter |-> U16 - 2, free |-> {U16 - 2}],
     [counter |-> 7, free |-> {5, 9}]}

\* allocate_user_id is about to be called
InitScan ==
    /\ \E input \in ScanInputs :
          /\ call = [op |-> "allocate", arg |-> [free |-> input.free, tries |-> 0],
                     endian |-> "", ret |-> None]
          /\ next_user_id = input.counter
    /\ max_connections = default_max_connections
    /\ sessions = << >>
    /\ accounts = InitialAccounts
    /\ allow_guest = TRUE
    /\ chan = << >>
    /\ accepting = TRUE
    /\ pc = [c \in Conns |-> "idle"]
    /\ uid = [c \in Conns |-> 0]
    /\ rx = [c \in Conns |-> 0]
    /\ hs = [c \in Conns |-> None]
    /\ hs_reply = [c \in Conns |-> None]
    /\ wrote = [c \in Conns |-> << >>]
    /\ req = [c \in Conns |-> None]
    /\ nreq = [c \in Conns |-> 0]
    /\ skipped = [c \in Conns |-> 0]
    /\ kicked = {}

\* a faulty test, which takes every id for unused
contains_key_never(free, id) == FALSE

\* sessions.contains_key(&id), on a registry given by the ids it lacks
contains_key(free, id) == id \notin free

\* allocate_user_id, one turn of its loop with no other task in between:
\* fetch_add(1), the wrap branch with its store(1), and the test on the
\* registry, which returns the id or goes round again
AllocateScan ==
    /\ call.op = "allocate" /\ call.ret = None
    /\ LET fetched == next_user_id
           id == IF WrapsAt(fetched) THEN 1 ELSE fetched
       IN /\ next_user_id' = IF WrapsAt(fetched) THEN 1 ELSE (fetched + 1) % U16
          /\ call' = [call EXCEPT !.arg.tries = @ + 1,
                                  !.ret = IF contains_key(call.arg.free, id)
                                          THEN None ELSE Some(id)]
    /\ UNCHANGED <<sessions, accounts, allow_guest, max_connections, chan, accepting,
                   pc, uid, rx, hs, hs_reply, wrote, req, nreq, skipped, kicked>>

NextScan == AllocateScan

SpecScan == InitScan /\ [][NextScan]_vars

(***************************************************************************)
(* NewUser step by step: two administrators at the same time               *)
(***************************************************************************)
\* Guests are not allowed.  Connections 1 and 2 have both logged in to the
\* account b, which has every privilege of an administrator.
InitRace ==
    /\ InitEstablished
    /\ allow_guest = FALSE
    /\ sessions = handle_login(LoginRequest(1, <<98>>, PasswordOfB), 2,
                               AfterAdminLogin(AfterHandshakes(NumConns)),
                               InitialAccounts, FALSE).sessions
    /\ chan = << >>
    /\ rx = [c \in Conns |-> 1]

\* the NewUser frames a client may send as its next frame, numbered id: the
\* logins c, C and d
NewUserFrames(id) ==
    {Request(TT_NewUser, id, <<LoginField(login),
                               BinField(F_UserPassword, xor_password(PasswordP)),
                               StrField(F_UserName, NickAl)>>) : login \in {<<99>>, <<67>>, <<100>>}}

\* the other requests of this server: the logins c and d deleted and looked
\* up, the password of the account a set to x, and logins to the accounts a
\* and d with the passwords p and x
OtherAccountFrames(id) ==
    {Request(TT_DeleteUser, id, <<LoginField(<<99>>)>>),
     Request(TT_GetUser, id, <<LoginField(<<100>>)>>),
     Request(TT_SetUser, id, <<LoginField(<<97>>),
                               BinField(F_UserPassword, xor_password(PasswordX))>>),
     LoginRequest(id, <<97>>, PasswordP),
     LoginRequest(id, <<100>>, PasswordP),
     LoginRequest(id, <<100>>, PasswordX)}

\* the accounts table declares its login column unique, without regard to
\* case: an INSERT of a login the table holds fails
InsertViolatesUnique(store, login) == \E a \in store : NoCase(a.login) = NoCase(login)

\* handle_new_user has passed check_privilege, the field tests and
\* account_exists, and create_account will not bail out before its INSERT
PassesChecks(frame, user_id, map, store) ==
    LET result == handle_new_user(frame, user_id, map, store)
    IN ~result.err /\ result.reply # None /\ result.reply[1].error_code = 0

\* handle_connection reads a NewUser frame: touch, then handle_new_user up
\* to the await of create_account's INSERT; a request that fails one of the
\* tests before it is answered at once
NewUserCheck(c) ==
    /\ pc[c] = "loop"
    /\ TotalReqs < MaxReqs
    /\ \E frame \in NewUserFrames(nreq[c] + 1) :
          IF PassesChecks(frame, uid[c],
                          UpdateSession(sessions, uid[c], LAMBDA s : touch(s, nreq[c] + 1)),
                          accounts)
          THEN /\ req' = [req EXCEPT ![c] = Some(frame)]
               /\ nreq' = [nreq EXCEPT ![c] = @ + 1]
               /\ sessions' = UpdateSession(sessions, uid[c],
                                            LAMBDA s : touch(s, nreq[c] + 1))
               /\ pc' = [pc EXCEPT ![c] = "new_user_insert"]
               /\ wrote' = [wrote EXCEPT ![c] = << >>]
               /\ UNCHANGED <<call, next_user_id, accounts, allow_guest,
                              max_connections, chan, accepting, uid, rx, hs, hs_reply,
                              skipped, kicked>>
          ELSE ReadFrame(c, frame)

\* the INSERT runs.  On a login the table holds it fails, create_account
\* returns the error, handle_new_user passes it on with `?` and the loop
\* logs it and goes on; otherwise the row is added and the success reply is
\* sent, where a failed send ends the loop.
NewUserInsert(c) ==
    /\ pc[c] = "new_user_insert"
    /\ LET frame == req[c][1]
           login_str == xor_password(LastField(frame.fields, F_UserLogin, "Binary")[1])
           password_bytes == xor_password(LastField(frame.fields, F_UserPassword, "Binary")[1])
           name == LastField(frame.fields, F_UserName, "String")[1]
           access_field == AccessField(frame.fields)
           access == IF access_field = None THEN {} ELSE access_field[1]
       IN IF InsertViolatesUnique(accounts, login_str)
          THEN /\ accounts' = accounts
               /\ wrote' = [wrote EXCEPT ![c] = << >>]
               /\ IF LoopGoesOnAfterError(WithStore(Failed(sessions, << >>), accounts))
                  THEN /\ pc' = [pc EXCEPT ![c] = "loop"]
                       /\ UNCHANGED <<sessions, chan, rx>>
                  ELSE LeaveLoop(c, sessions, chan)
          ELSE /\ accounts' = create_account(accounts, login_str, password_bytes, name, access)
               /\ \E sent \in BOOLEAN :
                     IF sent
                     THEN /\ wrote' = [wrote EXCEPT ![c] =
                                          <<create_success_reply(frame, << >>)>>]
                          /\ pc' = [pc EXCEPT ![c] = "loop"]
                          /\ UNCHANGED <<sessions, chan, rx>>
                     ELSE /\ wrote' = [wrote EXCEPT ![c] = << >>]
                          /\ LeaveLoop(c, sessions, chan)
    /\ UNCHANGED <<call, next_user_id, allow_guest, max_connections, accepting, uid,
                   hs, hs_reply, req, nreq, skipped, kicked>>

\* the inbound arm on one of the other account requests
InboundOther(c) ==
    /\ pc[c] = "loop"
    /\ TotalReqs < MaxReqs
    /\ \E frame \in OtherAccountFrames(nreq[c] + 1) : ReadFrame(c, frame)

NextRace ==
    \/ \E c \in Conns : NewUserCheck(c)
    \/ \E c \in Conns : NewUserInsert(c)
    \/ \E c \in Conns : InboundOther(c)
    \/ \E c \in Conns : ClientClose(c)

SpecRace == InitRace /\ [][NextRace]_vars

(***************************************************************************)
(* The Agreed request step by step: references into the session map        *)
(***************************************************************************)
\* the Agreed frames a client may send as its next frame, numbered id
AgreedFrames(id) ==
    {Request(TT_Agreed, id, <<StrField(F_UserName, NickAl), IntField(F_UserIconId, 0),
                              IntField(F_Options, 1)>>),
     Request(TT_Agreed, id, <<StrField(F_UserName, NickLong)>>)}

\* handle_connection reads an Agreed frame of a session with an account:
\* touch, then handle_agreed up to the await of get_account_by_id
AgreedLookup(c) ==
    /\ pc[c] = "loop"
    /\ TotalReqs < MaxReqs
    /\ uid[c] \in DOMAIN sessions
    /\ sessions[uid[c]].account_id # None
    /\ Unguarded(uid[c], c)
    /\ \E frame \in AgreedFrames(nreq[c] + 1) :
          /\ req' = [req EXCEPT ![c] = Some(frame)]
          /\ nreq' = [nreq EXCEPT ![c] = @ + 1]
    /\ sessions' = UpdateSession(sessions, uid[c], LAMBDA s : touch(s, nreq[c] + 1))
    /\ pc' = [pc EXCEPT ![c] = "agreed_query"]
    /\ wrote' = [wrote EXCEPT ![c] = << >>]
    /\ UNCHANGED <<call, next_user_id, accounts, allow_guest, max_connections, chan, accepting,
                   uid, rx, hs, hs_reply, skipped, kicked>>

\* the store answers: the Ref is dropped, handle_agreed updates the session
\* under get_session_mut, publishes UserJoined and returns the reply, which
\* the loop sends; a failed send ends the loop
AgreedStore(c) ==
    /\ pc[c] = "agreed_query"
    /\ Unguarded(uid[c], c)
    /\ LET result == handle_agreed(req[c][1], uid[c], sessions, accounts)
           log == broadcast(chan, result.events)
       IN \E sent \in BOOLEAN :
             IF sent
             THEN /\ sessions' = result.sessions
                  /\ chan' = log
                  /\ wrote' = [wrote EXCEPT ![c] = result.reply]
                  /\ pc' = [pc EXCEPT ![c] = "agreed_replied"]
                  /\ rx' = rx
             ELSE /\ LeaveLoop(c, result.sessions, log)
                  /\ wrote' = [wrote EXCEPT ![c] = << >>]
    /\ UNCHANGED <<call, next_user_id, accounts, allow_guest, max_connections, accepting, uid,
                   hs, hs_reply, req, nreq, skipped, kicked>>

\* the loop after the Agreed reply: get_session for the UserAccess push.  A
\* session with an account awaits the store; without one (or without a
\* session) the guest mask is pushed at once.
PushLookup(c) ==
    /\ pc[c] = "agreed_replied"
    /\ IF uid[c] \in DOMAIN sessions /\ sessions[uid[c]].account_id # None
       THEN /\ pc' = [pc EXCEPT ![c] = "push_query"]
            /\ wrote' = wrote
       ELSE /\ pc' = [pc EXCEPT ![c] = "loop"]
            /\ wrote' = [wrote EXCEPT ![c] = @ \o <<UserAccessPush(AccessGuest)>>]
    /\ UNCHANGED <<call, next_user_id, sessions, accounts, allow_guest, max_connections, chan,
                   accepting, uid, rx, hs, hs_reply, req, nreq, skipped, kicked>>

\* the store answers: the Ref is dropped and UserAccess is sent; a failed
\* send ends the loop
PushStore(c) ==
    /\ pc[c] = "push_query"
    /\ \E sent \in BOOLEAN :
          IF sent
          THEN /\ wrote' = [wrote EXCEPT ![c] =
                               @ \o <<UserAccessPush(CurrentAccess(sessions, accounts, uid[c]))>>]
               /\ pc' = [pc EXCEPT ![c] = "loop"]
               /\ UNCHANGED <<sessions, chan, rx>>
          ELSE /\ LeaveLoop(c, sessions, chan)
               /\ wrote' = wrote
    /\ UNCHANGED <<call, next_user_id, accounts, allow_guest, max_connections, accepting, uid,
                   hs, hs_reply, req, nreq, skipped, kicked>>

NextLock ==
    \/ \E c \in Conns : AgreedLookup(c)
    \/ \E c \in Conns : AgreedStore(c)
    \/ \E c \in Conns : PushLookup(c)
    \/ \E c \in Conns : PushStore(c)
    \/ \E c \in Conns : ClientClose(c)
    \/ \E c \in Conns : Recv(c)
    \/ \E user_id \in KickTargets : Kick(user_id)

SpecLock == InitAdmin /\ [][NextLock]_vars

\* a connection that has registered its session and not yet torn down
Live(c) == pc[c] \in {"handshake", "loop"}

\* C1: under any interleaving of tasks that call allocate_user_id and then
\* register_session, no two live connections hold the same user_id (so that
\* register_session never replaces the entry of another live connection),
\* also when the counter wraps through 65535 and 0 back to 1.
C1_DistinctUserIds ==
    \A c, d \in Conns : (c # d /\ Live(c) /\ Live(d)) => uid[c] # uid[d]

\* the position of an auth_state in Handshake -> LoginPending -> Authenticated
AuthRank(a) == CASE a = Handshake -> 0 [] a = LoginPending -> 1 [] a = Authenticated -> 2

\* the registry entries that are the same session before and after a step
SameSession(k) ==
    /\ k \in DOMAIN sessions
    /\ k \in DOMAIN sessions'
    /\ sessions'[k].address = sessions[k].address

\* C2: for every session, auth_state only moves Handshake -> LoginPending ->
\* Authenticated: in any step a registered session keeps its auth_state or
\* moves one place forward, so an Authenticated session stays Authenticated
\* until it is unregistered.
C2_AuthStateOneWay ==
    [][\A k \in DOMAIN sessions :
          SameSession(k) =>
              AuthRank(sessions'[k].auth_state) - AuthRank(sessions[k].auth_state)
                  \in {0, 1}]_vars

\* a reply with error_code 0 to a request of the given type
IsSuccessReply(f, type) == f.is_reply /\ f.type = type /\ f.error_code = 0

\* the access mask of a registered session: its account's, or the guest
\* preset when it has no account
SessionMask(s) ==
    IF s.account_id = None THEN AccessGuest
    ELSE (CHOOSE a \in accounts : a.id = s.account_id[1]).access

\* the frame at position i of connection c's latest batch is a ShowAgreement
\* push with is_reply = 0, id = 0 and one empty Data field
IsShowAgreementAt(c, i) ==
    /\ i <= Len(wrote[c])
    /\ ~wrote[c][i].is_reply
    /\ wrote[c][i].id = 0
    /\ wrote[c][i].type = TT_ShowAgreement
    /\ Len(wrote[c][i].fields) = 1
    /\ wrote[c][i].fields[1].id = F_Data
    /\ wrote[c][i].fields[1].val = << >>

\* the frame at position i is a UserAccess push with is_reply = 0, id = 0
\* carrying the 8-byte wire form of the mask of c's registered session
IsUserAccessAt(c, i) ==
    /\ i <= Len(wrote[c])
    /\ ~wrote[c][i].is_reply
    /\ wrote[c][i].id = 0
    /\ wrote[c][i].type = TT_UserAccess
    /\ Len(wrote[c][i].fields) = 1
    /\ wrote[c][i].fields[1].id = F_UserAccess
    /\ Len(wrote[c][i].fields[1].val) = 8
    /\ uid[c] \in DOMAIN sessions
    /\ wrote[c][i].fields[1].val = to_wire_format(SessionMask(sessions[uid[c]]))

\* neither push is written anywhere but directly after its successful reply
PushesOnlyAfterReply(c) ==
    \A i \in 1..Len(wrote[c]) :
        /\ wrote[c][i].type = TT_ShowAgreement
              => i > 1 /\ IsSuccessReply(wrote[c][i - 1], TT_Login)
        /\ wrote[c][i].type = TT_UserAccess
              => i > 1 /\ IsSuccessReply(wrote[c][i - 1], TT_Agreed)

\* every successful Login or Agreed reply is directly followed by its push
ReplyThenPush(c) ==
    \A i \in 1..Len(wrote[c]) :
        /\ IsSuccessReply(wrote[c][i], TT_Login) => IsShowAgreementAt(c, i + 1)
        /\ IsSuccessReply(wrote[c][i], TT_Agreed) => IsUserAccessAt(c, i + 1)

\* the same, except that the push may be missing when its send failed: the
\* reply is then the last frame and the task has left its loop
ReplyThenPushUnlessSendFails(c) ==
    \A i \in 1..Len(wrote[c]) :
        /\ IsSuccessReply(wrote[c][i], TT_Login)
              => \/ IsShowAgreementAt(c, i + 1)
                 \/ i = Len(wrote[c]) /\ pc[c] = "closed"
        /\ IsSuccessReply(wrote[c][i], TT_Agreed)
              => \/ IsUserAccessAt(c, i + 1)
                 \/ i = Len(wrote[c]) /\ pc[c] = "closed"

ReadsFrame(c) == nreq'[c] # nreq[c]

\* C4: when an authenticated client sends a frame whose type is not in the
\* enumeration, the server writes no reply, the task stays in its loop and
\* the session stays registered (so that the next request is processed).
C4_UnknownTypeIgnored ==
    [][\A c \in Conns :
          (/\ ReadsFrame(c)
           /\ req'[c][1].type \notin KnownTransactionTypes
           /\ uid[c] \in DOMAIN sessions
           /\ is_authenticated(sessions[uid[c]]))
          => (/\ wrote'[c] = << >>
              /\ pc'[c] = "loop"
              /\ uid[c] \in DOMAIN sessions')]_vars

\* what a Login asks for: the unscrambled login and password, empty if absent
LoginOf(frame) ==
    LET f == LastField(frame.fields, F_UserLogin, "Binary")
    IN IF f = None THEN << >> ELSE xor_password(f[1])
PasswordOf(frame) ==
    LET f == LastField(frame.fields, F_UserPassword, "Binary")
    IN IF f = None THEN << >> ELSE xor_password(f[1])

\* a Login that must be rejected: guest intent while guests are disabled, a
\* login no account has, or a password that is not the account's
RejectedLogin(frame) ==
    /\ frame.type = TT_Login
    /\ IF LoginOf(frame) = << >> \/ PasswordOf(frame) = << >>
       THEN ~allow_guest
       ELSE \A a \in accounts :
               NoCase(a.login) = NoCase(LoginOf(frame))
                   => ~verify_password(a.password_hash, PasswordOf(frame))

\* the fields of a session a rejected Login must leave alone
Identity(s) == <<s.auth_state, s.account_id, s.nickname, s.icon_id>>

\* C5: every rejected Login gets exactly one reply with type 107, the
\* request's id, error_code 2 and no fields, and leaves the session's
\* auth_state, account_id, nickname and icon as they were.  (A reply whose
\* send fails ends the loop and is not held against the claim.)
C5_RejectedLoginReply ==
    [][\A c \in Conns :
          (ReadsFrame(c) /\ RejectedLogin(req'[c][1]) /\ pc'[c] = "loop")
          => (/\ wrote'[c] = <<[flags |-> 0, is_reply |-> TRUE, type |-> TT_Login,
                                id |-> req'[c][1].id, error_code |-> PermissionDenied,
                                fields |-> << >>]>>
              /\ uid[c] \in DOMAIN sessions
                    => (/\ uid[c] \in DOMAIN sessions'
                        /\ Identity(sessions'[uid[c]]) = Identity(sessions[uid[c]])))]_vars

\* C6: every reply written for a request has is_reply = 1 and the request's
\* type and id, and at most one reply is written per request: in an inbound
\* iteration the first frame written is the reply and no later frame is a
\* reply; an iteration that read no request writes no reply.
C6_ReplyEchoesRequest ==
    \A c \in Conns :
        /\ \A i \in 1..Len(wrote[c]) : wrote[c][i].is_reply => i = 1 /\ req[c] # None
        /\ (req[c] # None /\ wrote[c] # << >>)
              => (/\ wrote[c][1].is_reply
                  /\ wrote[c][1].type = req[c][1].type
                  /\ wrote[c][1].id = req[c][1].id)

\* a Login has just been refused with an error reply
C6_Witness ==
    \E c \in Conns :
        /\ req[c] # None
        /\ req[c][1].type = TT_Login
        /\ Len(wrote[c]) = 1
        /\ wrote[c][1].error_code = PermissionDenied
        /\ wrote[c][1].id = req[c][1].id

\* the number of events of a kind in a sequence of events
CountKind(log, kind) == Cardinality({i \in 1..Len(log) : log[i].kind = kind})

\* C7: the number of Authenticated sessions in the registry equals the
\* number of UserJoined events published minus the number of UserLeft events
\* published.
C7_AuthenticatedCount ==
    Cardinality({k \in DOMAIN sessions : is_authenticated(sessions[k])})
        = CountKind(chan, "UserJoined") - CountKind(chan, "UserLeft")

\* task c's framed loop ends in this step
LeavesLoop(c) == pc[c] = "loop" /\ pc'[c] = "closed"

\* the number of UserLeft{user_id} events published in this step
LeftPublished(user_id) ==
    Cardinality({i \in (Len(chan) + 1)..Len(chan') :
                    chan'[i].kind = "UserLeft" /\ chan'[i].user_id = user_id})

\* C8: whenever a task's framed loop ends, no session is left in the
\* registry under its id, and UserLeft{id} is published (once) if and only
\* if the session removed was Authenticated: always when it was
\* Authenticated before the step, never when there was no session, and
\* otherwise only when the step's own request was the Login that
\* authenticated it.
C8_TeardownUnregisters ==
    [][\A c \in Conns :
          LeavesLoop(c)
          => (/\ uid[c] \notin DOMAIN sessions'
              /\ LeftPublished(uid[c]) <= 1
              /\ uid[c] \notin DOMAIN sessions => LeftPublished(uid[c]) = 0
              /\ (uid[c] \in DOMAIN sessions /\ is_authenticated(sessions[uid[c]]))
                    => LeftPublished(uid[c]) = 1
              /\ (/\ uid[c] \in DOMAIN sessions
                  /\ ~is_authenticated(sessions[uid[c]])
                  /\ LeftPublished(uid[c]) = 1)
                    => (ReadsFrame(c) /\ req'[c][1].type = TT_Login))]_vars

\* a task has left its loop, its authenticated session is gone and the last
\* event published is its UserLeft
C8_Witness ==
    \E c \in Conns :
        /\ pc[c] = "closed"
        /\ hs_reply[c] = Some(HandshakeReplyBytes(0))
        /\ \A k \in kicked : k.conn # c
        /\ uid[c] \notin DOMAIN sessions
        /\ chan # << >>
        /\ chan[Len(chan)] = UserLeft(uid[c])

(***************************************************************************)
(* Fairness: a task that can take a step on its own takes it               *)
(***************************************************************************)
\* the steps a task takes without waiting for its client: the allocation
\* and registration of its id, and the delivery of a pending broadcast
TaskStep(c) ==
    \/ AllocFetch(c)
    \/ AllocWrap(c)
    \/ AllocCheck(c)
    \/ Register(c)
    \/ Recv(c)

FairSpec == Spec /\ \A c \in Conns : WF_vars(TaskStep(c))

\* connection c holds the registry entry under its id, and it is Authenticated
AuthenticatedClient(c) ==
    /\ pc[c] = "loop"
    /\ uid[c] \in DOMAIN sessions
    /\ sessions[uid[c]].address = c
    /\ is_authenticated(sessions[uid[c]])

\* C9: with two authenticated clients A and B, after the operator kicks A,
\* A's task eventually leaves its loop and closes A's connection.
C9_KickedTaskLeaves ==
    \A a, b \in Conns :
        (/\ [conn |-> a, auth_state |-> Authenticated] \in kicked
         /\ pc[a] = "loop"
         /\ b # a
         /\ AuthenticatedClient(b))
        ~> (pc[a] = "closed")

\* a task that has registered its session and has not ended: it is reading
\* the handshake or it is in its loop (LoginPending or Authenticated)
Running(c) == pc[c] \in {"handshake", "loop"}

\* C10: after ServerShutdown is published, every task live at that moment,
\* whatever its phase, eventually leaves its loop and unregisters.
C10_ShutdownEndsEveryTask ==
    \A c \in Conns : (~accepting /\ Running(c)) ~> (pc[c] = "closed")

(***************************************************************************)
(* The broadcast arm and the handshake                                     *)
(***************************************************************************)
\* task c receives the event chan[rx[c]] in this step and stays in its loop
\* (a step that tells the task it lagged is not a delivery)
Delivers(c) ==
    /\ pc[c] = "loop"
    /\ pc'[c] = "loop"
    /\ rx[c] >= 1
    /\ rx'[c] = rx[c] + 1
    /\ skipped'[c] = skipped[c]

\* the user id a NotifyChangeUser frame names: the first two bytes of its
\* UserNameWithInfo field
NotifiedUser(frame) == SubSeq(frame.fields[1].val, 1, 2)

\* C14: a UserJoined{id} event is never written as NotifyChangeUser to the
\* connection whose own user_id is id, and a connection with another
\* user_id that receives the event is written exactly one NotifyChangeUser
\* frame naming id.
C14_JoinNotEchoed ==
    [][\A c \in Conns :
          /\ \A i \in 1..Len(wrote'[c]) :
                wrote'[c][i].type = TT_NotifyChangeUser
                    => NotifiedUser(wrote'[c][i]) # U16Bytes(uid'[c])
          /\ (Delivers(c) /\ chan[rx[c]].kind = "UserJoined")
                => IF chan[rx[c]].user_id = uid[c]
                   THEN wrote'[c] = << >>
                   ELSE /\ Len(wrote'[c]) = 1
                        /\ wrote'[c][1].type = TT_NotifyChangeUser
                        /\ ~wrote'[c][1].is_reply
                        /\ NotifiedUser(wrote'[c][1]) = U16Bytes(chan[rx[c]].user_id)]_vars

\* a connection has been notified that another user joined, and the user
\* who joined has received its own UserJoined event and was written nothing
C14_Witness ==
    \E c, d \in Conns :
        /\ c # d
        /\ pc[c] = "loop" /\ pc[d] = "loop"
        /\ uid[c] # uid[d]
        /\ Len(wrote[c]) = 1
        /\ wrote[c][1].type = TT_NotifyChangeUser
        /\ NotifiedUser(wrote[c][1]) = U16Bytes(uid[d])
        /\ rx[d] = Len(chan) + 1
        /\ chan # << >>
        /\ chan[Len(chan)].kind = "UserJoined"
        /\ chan[Len(chan)].user_id = uid[d]
        /\ req[d] = None
        /\ wrote[d] = << >>

\* task c's handshake ends in this step with the client's 12 bytes read and
\* a reply written
HandshakeAnswered(c) ==
    /\ pc[c] = "handshake"
    /\ pc'[c] # "handshake"
    /\ hs'[c] # None
    /\ hs_reply'[c] # None

\* the 8 reply bytes: the magic "TRTP" and the error code as a big-endian u32
ReplyOf(code) == <<84, 82, 84, 80, 0, 0, 0, code>>

\* C15: the handshake outcome is a function of the 12 client bytes.  Bad
\* magic, whatever the version: reply magic+1 and the connection closes.
\* Correct magic and a version other than 1: reply magic+2 and the
\* connection closes.  Correct magic and version 1: reply magic+0, the task
\* enters its loop and its session is LoginPending.  No transaction is
\* processed on a connection whose handshake failed.  (A handshake whose
\* reply could not be written is not held against the claim.)
C15_HandshakeOutcome ==
    [][\A c \in Conns :
          /\ HandshakeAnswered(c) =>
                LET bytes == hs'[c][1]
                    magic_ok == SubSeq(bytes, 1, 4) = <<84, 82, 84, 80>>
                    version_ok == bytes[9] = 0 /\ bytes[10] = 1
                IN /\ ~magic_ok
                        => hs_reply'[c] = Some(ReplyOf(1)) /\ pc'[c] = "closed"
                   /\ (magic_ok /\ ~version_ok)
                        => hs_reply'[c] = Some(ReplyOf(2)) /\ pc'[c] = "closed"
                   /\ (magic_ok /\ version_ok)
                        => /\ hs_reply'[c] = Some(ReplyOf(0))
                           /\ pc'[c] = "loop"
                           /\ uid[c] \in DOMAIN sessions
                                 => /\ uid[c] \in DOMAIN sessions'
                                    /\ sessions'[uid[c]].auth_state = LoginPending
          /\ (pc'[c] = "closed" /\ hs_reply'[c] # Some(ReplyOf(0))) => nreq'[c] = 0]_vars

\* one connection was refused for its version and closed, another passed
\* the handshake and its session is LoginPending
C15_Witness ==
    \E c, d \in Conns :
        /\ pc[c] = "closed"
        /\ hs[c] = Some(HandshakeBytes(PROTOCOL_MAGIC, OtherVersion))
        /\ hs_reply[c] = Some(ReplyOf(2))
        /\ pc[d] = "loop"
        /\ hs_reply[d] = Some(ReplyOf(0))
        /\ uid[d] \in DOMAIN sessions
        /\ sessions[uid[d]].address = d
        /\ sessions[uid[d]].auth_state = LoginPending

\* task c's handshake is rejected in this step: it ends and the task does
\* not enter its loop
HandshakeRejected(c) == pc[c] = "handshake" /\ pc'[c] = "closed"

\* connection c is closed and never passed the handshake
ClosedInHandshake(c) == pc[c] = "closed" /\ hs_reply[c] # Some(ReplyOf(0))

C17_HandshakeTimesOut ==
    \A c \in Conns :
        (/\ pc[c] = "handshake"
         /\ uid[c] \in DOMAIN sessions
         /\ sessions[uid[c]].address = c
         /\ sessions[uid[c]].auth_state = Handshake)
        ~> (pc[c] # "handshake")

(***************************************************************************)
(* The connection limit                                                    *)
(***************************************************************************)
\* the accept loop takes connection c while the registry is at the limit
AcceptedAtLimit(c) ==
    /\ pc[c] = "idle"
    /\ pc'[c] # "idle"
    /\ session_count(sessions) >= max_connections

\* a connection the accept loop dropped: closed without ever holding an id
Dropped(c) == pc[c] = "closed" /\ uid[c] = 0

\* C18: a connection accepted while session_count() >= max_connections is
\* dropped at once: no handshake byte is written to it, no user_id is
\* allocated for it (the counter does not move) and no session is registered
\* for it, then or later.
C18_DroppedAtLimit ==
    [][\A c \in Conns :
          /\ AcceptedAtLimit(c)
                => /\ pc'[c] = "closed"
                   /\ uid'[c] = 0
                   /\ next_user_id' = next_user_id
                   /\ sessions' = sessions
                   /\ hs_reply'[c] = None
                   /\ wrote'[c] = << >>
          /\ Dropped(c)
                => /\ Dropped(c)'
                   /\ hs_reply'[c] = None
                   /\ wrote'[c] = << >>
                   /\ \A k \in DOMAIN sessions' : sessions'[k].address # c]_vars

\* the second connection was dropped while the first holds the only slot
C18_Witness ==
    \E c, d \in Conns :
       /\ Dropped(c)
       /\ hs[c] = None /\ hs_reply[c] = None
       /\ pc[d] = "loop"
       /\ uid[d] \in DOMAIN sessions /\ sessions[uid[d]].address = d
       /\ session_count(sessions) = max_connections

(***************************************************************************)
(* The broadcast hub under a slow subscriber                               *)
(***************************************************************************)
\* the events published and not yet received by the task of connection c
Behind(c) == Len(chan) - rx[c] + 1

\* the task of connection c polls its receiver while it is more than the
\* capacity behind
RecvLagged(c) == pc[c] = "loop" /\ rx[c] >= 1 /\ Behind(c) > BROADCAST_CAPACITY /\ Recv(c)

\* C11: publishing never blocks: a connection in its loop can have its
\* SendChat handled, and its teardown can publish, however far behind the
\* subscribers are.  A subscriber that polls while more than the capacity
\* (100 events) behind is told how many events it skipped; its connection
\* stays open and registered, and the events still held by the hub are the
\* next it receives.
C11_SlowSubscriberSkips ==
    /\ [](\A c \in Conns :
             /\ (pc[c] = "loop" /\ TotalReqs < MaxReqs) => ENABLED InboundChat(c)
             /\ pc[c] = "loop" => ENABLED ClientClose(c))
    /\ [][\A c \in Conns :
            RecvLagged(c)
              => /\ skipped'[c] = skipped[c] + (Behind(c) - BROADCAST_CAPACITY)
                 /\ rx'[c] = rx[c] + (Behind(c) - BROADCAST_CAPACITY)
                 /\ Behind(c)' = BROADCAST_CAPACITY
                 /\ pc'[c] = "loop"
                 /\ sessions' = sessions
                 /\ chan' = chan]_vars

\* a subscriber that skipped events is in its loop and has just written the
\* frame of an event published after the ones it skipped
C11_Witness ==
    \E c \in Conns :
       /\ skipped[c] > 0
       /\ pc[c] = "loop"
       /\ rx[c] > BROADCAST_CAPACITY + 1
       /\ wrote[c] = BroadcastFrame(chan[rx[c] - 1], uid[c], sessions)
       /\ wrote[c] # << >>
       /\ uid[c] \in DOMAIN sessions

\* C12: the hub keeps the events in publish order (it only appends).  A
\* subscriber's position only moves forward; every frame its broadcast arm
\* writes is the frame of the event at its position, after which it moves
\* by one: so what it writes is a subsequence of the publish order without
\* reordering or duplicate, and two subscribers see the events they both
\* receive in the same order.  It moves by more than one only in a step in
\* which it is told it lagged, by exactly the number of events it skips.
C12_SubsequenceOfPublishOrder ==
    [][/\ Len(chan') >= Len(chan)
       /\ SubSeq(chan', 1, Len(chan)) = chan
       /\ \A c \in Conns :
            /\ (pc[c] = "loop" /\ pc'[c] = "loop") => rx'[c] >= rx[c]
            /\ (pc[c] = "loop" /\ Recv(c))
                  => /\ pc'[c] = "loop" => rx'[c] > rx[c]
                     /\ wrote'[c] # << >>
                           => /\ rx'[c] = rx[c] + 1
                              /\ wrote'[c] = BroadcastFrame(chan[rx[c]], uid[c], sessions)
                     /\ skipped'[c] # skipped[c]
                           => /\ skipped'[c] - skipped[c] = rx'[c] - rx[c]
                              /\ wrote'[c] = << >>
                     /\ rx'[c] > rx[c] + 1 => skipped'[c] > skipped[c]
            /\ ~Recv(c) => skipped'[c] = skipped[c]]_vars

\* two subscribers have each just written the frame of the same event, the
\* latest one, and one of them skipped events before
C12_Witness ==
    \E c, d \in Conns :
       /\ c # d
       /\ pc[c] = "loop" /\ pc[d] = "loop"
       /\ rx[c] = Len(chan) + 1 /\ rx[d] = Len(chan) + 1
       /\ wrote[c] = BroadcastFrame(chan[Len(chan)], uid[c], sessions) /\ wrote[c] # << >>
       /\ wrote[d] = wrote[c]
       /\ skipped[c] > 0 /\ skipped[d] = 0

(***************************************************************************)
(* Chat                                                                    *)
(***************************************************************************)
\* task c has just read a frame that decodes to a SendChat, while its
\* session was registered
ReadsSendChat(c) ==
    /\ ReadsFrame(c)
    /\ ~DecodeFails(req'[c][1])
    /\ req'[c][1].type = TT_SendChat
    /\ uid[c] \in DOMAIN sessions

\* the value of the frame's UserId field
UserIdOf(frame) == LastField(frame.fields, F_UserId, "Integer")

\* what SendChat does, for the requests selected by WithData: nothing from a
\* session that is not Authenticated; from an Authenticated one no reply and
\* one ChatMessage event with the sender's id.  Every connection that
\* receives a ChatMessage event, the sender included, writes one ChatMessage
\* frame whose UserId is the sender's id.
ChatRule(WithData(_)) ==
    \A c \in Conns :
       /\ ReadsSendChat(c)
             => /\ wrote'[c] = << >>
                /\ pc'[c] = "loop"
                /\ ~is_authenticated(sessions[uid[c]]) => chan' = chan
                /\ (is_authenticated(sessions[uid[c]]) /\ WithData(req'[c][1]))
                      => /\ Len(chan') = Len(chan) + 1
                         /\ SubSeq(chan', 1, Len(chan)) = chan
                         /\ chan'[Len(chan')].kind = "ChatMessage"
                         /\ chan'[Len(chan')].user_id = uid[c]
       /\ (Delivers(c) /\ chan[rx[c]].kind = "ChatMessage")
             => /\ Len(wrote'[c]) = 1
                /\ wrote'[c][1].type = TT_ChatMessage
                /\ ~wrote'[c][1].is_reply
                /\ UserIdOf(wrote'[c][1]) = Some(chan[rx[c]].user_id)

\* the request carries its Data field
HasData(frame) == LastField(frame.fields, F_Data, "Binary") # None

\* any request
AnyRequest(frame) == TRUE

Dispatched(c, frame) ==
    handle_transaction(frame, uid[c],
                       UpdateSession(sessions, uid[c], LAMBDA s : touch(s, nreq[c] + 1)),
                       accounts, allow_guest)

\* the handler failed: it returned an error, or a reply with an error code
HandlerFailed(result) ==
    result.err \/ (result.reply # None /\ result.reply[1].error_code # NoError)

\* C19: a failing handler (missing field, bad credential, forbidden
\* operation, account-store error) never ends the connection.  When the
\* handler returns an error nothing is written and the task stays in its
\* loop; when it returns an error reply the task stays in its loop once the
\* reply is written.  The session stays registered with its auth_state, and
\* the task reads and dispatches the next request whenever the client sends
\* one.
C19_FailingHandlerKeepsConnection ==
    /\ [](\A c \in Conns : (pc[c] = "loop" /\ TotalReqs < MaxReqs) => ENABLED InboundAdmin(c))
    /\ [][\A c \in Conns :
            (/\ ReadsFrame(c)
             /\ ~DecodeFails(req'[c][1])
             /\ uid[c] \in DOMAIN sessions
             /\ HandlerFailed(Dispatched(c, req'[c][1])))
            => LET result == Dispatched(c, req'[c][1])
               IN /\ result.err => wrote'[c] = << >>
                  /\ wrote'[c] = (IF result.err THEN << >> ELSE result.reply)
                        => /\ pc'[c] = "loop"
                           /\ uid[c] \in DOMAIN sessions'
                           /\ sessions'[uid[c]].auth_state = sessions[uid[c]].auth_state
                           /\ sessions'[uid[c]].account_id = sessions[uid[c]].account_id]_vars

\* the administrator's NewUser without a name has just failed: nothing was
\* written, the task is in its loop with its session still Authenticated,
\* and the next request can be read
C19_Witness ==
    \E c \in Conns :
       /\ pc[c] = "loop"
       /\ nreq[c] = 1
       /\ req[c] # None /\ req[c][1].type = TT_NewUser
       /\ wrote[c] = << >>
       /\ uid[c] \in DOMAIN sessions
       /\ sessions[uid[c]].auth_state = Authenticated
       /\ sessions[uid[c]].account_id # None
       /\ TotalReqs < MaxReqs

\* the account requests
AccountRequestTypes == {TT_NewUser, TT_GetUser, TT_SetUser, TT_DeleteUser}

\* the privilege each account request needs
RequiredPrivilege(type) ==
    CASE type = TT_NewUser -> CREATE_USERS
      [] type = TT_GetUser -> OPEN_USER
      [] type = TT_SetUser -> MODIFY_USERS
      [] type = TT_DeleteUser -> DELETE_USERS

\* a field the request requires is missing: the login, and for NewUser the
\* password and the name too
MissingRequiredField(frame) ==
    \/ LastField(frame.fields, F_UserLogin, "Binary") = None
    \/ /\ frame.type = TT_NewUser
       /\ \/ LastField(frame.fields, F_UserPassword, "Binary") = None
          \/ LastField(frame.fields, F_UserName, "String") = None

\* the error code the failing request is to be answered with, if it fails in
\* one of the four ways: a request that fails in several ways is held to the
\* code the handler tests first
ExpectedError(frame, user_id, map, store) ==
    IF ~check_privilege(map, store, user_id, RequiredPrivilege(frame.type))
    THEN Some(PermissionDenied)
    ELSE IF MissingRequiredField(frame) THEN Some(InvalidParameter)
    ELSE IF frame.type = TT_NewUser /\ account_exists(store, LoginOf(frame))
    THEN Some(AlreadyExists)
    ELSE IF frame.type # TT_NewUser /\ ~account_exists(store, LoginOf(frame))
    THEN Some(NotFound)
    ELSE None

\* C20: every failing account request (NewUser, GetUser, SetUser,
\* DeleteUser) is answered with an error reply without fields, whose code is
\* 5 InvalidParameter when a required field is missing, 2 PermissionDenied
\* when the caller lacks the privilege, 3 NotFound when the target login is
\* absent, 4 AlreadyExists when NewUser names an existing login.  (A reply
\* that could not be written is not held against the claim.)
C20_AccountErrorReplies ==
    [][\A c \in Conns :
          (/\ ReadsFrame(c)
           /\ req'[c][1].type \in AccountRequestTypes
           /\ pc'[c] = "loop")
          => LET frame == req'[c][1]
                 expected == ExpectedError(frame, uid[c], sessions, accounts)
             IN expected # None
                  => wrote'[c] = <<create_error_reply(frame, expected[1])>>]_vars

(***************************************************************************)
(* Requests without a handler                                              *)
(***************************************************************************)
\* the types the dispatch has an arm for
HandledTypes ==
    {TT_Login, TT_Agreed, TT_SendChat, TT_GetUserNameList,
     TT_NewUser, TT_GetUser, TT_SetUser, TT_DeleteUser}

\* the session with its last_activity left out
WithoutActivity(s) == [s EXCEPT !.last_activity = 0]

\* C21: a request whose type the codec knows and the dispatch has no arm
\* for (KeepConnectionAlive, a news type, a private-chat type) gets no
\* reply and publishes no event; the registry keeps its keys and every
\* session is unchanged, except last_activity of the sender's; the task
\* stays in its loop.
C21_UnhandledTypeNoEffect ==
    [][\A c \in Conns :
          (/\ ReadsFrame(c)
           /\ req'[c][1].type \in KnownTransactionTypes \ HandledTypes)
          => /\ wrote'[c] = << >>
             /\ chan' = chan
             /\ accounts' = accounts
             /\ pc'[c] = "loop"
             /\ DOMAIN sessions' = DOMAIN sessions
             /\ \A k \in DOMAIN sessions :
                   IF k = uid[c] THEN WithoutActivity(sessions'[k]) = WithoutActivity(sessions[k])
                   ELSE sessions'[k] = sessions[k]]_vars

\* a connection has just sent a keep-alive as its second request: nothing
\* was written, it is in its loop and its session saw the activity
C21_Witness ==
    \E c \in Conns :
       /\ pc[c] = "loop"
       /\ req[c] = Some(Request(TT_KeepConnectionAlive, 2, << >>))
       /\ wrote[c] = << >>
       /\ uid[c] \in DOMAIN sessions
       /\ sessions[uid[c]].last_activity = 2

(***************************************************************************)
(* Guest login after an account login                                      *)
(***************************************************************************)
\* task c has just read a Login that asks for a guest session and the login
\* succeeded: guests are allowed and the session was registered
GuestLoginSucceeds(c) ==
    /\ ReadsFrame(c)
    /\ req'[c][1].type = TT_Login
    /\ (LoginOf(req'[c][1]) = << >> \/ PasswordOf(req'[c][1]) = << >>)
    /\ allow_guest
    /\ uid[c] \in DOMAIN sessions
    /\ uid[c] \in DOMAIN sessions'

\* C22: after any successful guest Login the session has no account_id,
\* also when the same connection had logged in to an account before.
C22_GuestHasNoAccount ==
    [][\A c \in Conns :
          GuestLoginSucceeds(c)
            => /\ sessions'[uid[c]].auth_state = Authenticated
               /\ sessions'[uid[c]].account_id = None]_vars

(***************************************************************************)
(* The user list                                                           *)
(***************************************************************************)
\* task c has just read a GetUserNameList while its session was registered
ReadsGetUserNameList(c) ==
    /\ ReadsFrame(c)
    /\ req'[c][1].type = TT_GetUserNameList
    /\ uid[c] \in DOMAIN sessions

\* the user ids the UserNameWithInfo fields of a reply name, in order
ListedUsers(reply) ==
    [i \in 1..Len(reply.fields) |-> SubSeq(reply.fields[i].val, 1, 2)]

\* C23: GetUserNameList is served only to an Authenticated requester (a
\* session in Handshake or LoginPending gets no user list); a served reply
\* carries exactly one UserNameWithInfo field per session that is
\* Authenticated at that moment and none for the other sessions.
C23_UserListForAuthenticated ==
    [][\A c \in Conns :
          ReadsGetUserNameList(c)
            => /\ ~is_authenticated(sessions[uid[c]]) => wrote'[c] = << >>
               /\ wrote'[c] # << >>
                     => LET reply == wrote'[c][1]
                        IN /\ \A i \in 1..Len(reply.fields) :
                                 reply.fields[i].id = F_UserNameWithInfo
                           /\ \A k \in DOMAIN sessions :
                                 Cardinality({i \in 1..Len(reply.fields) :
                                                ListedUsers(reply)[i] = U16Bytes(k)})
                                 = (IF is_authenticated(sessions[k]) THEN 1 ELSE 0)
                           /\ Len(reply.fields)
                                 = Cardinality({k \in DOMAIN sessions :
                                                  is_authenticated(sessions[k])})]_vars

(***************************************************************************)
(* Client info                                                             *)
(***************************************************************************)
\* task c has just read a GetClientInfoText naming a registered session and
\* stays in its loop
ReadsGetClientInfoText(c) ==
    /\ ReadsFrame(c)
    /\ req'[c][1].type = TT_GetClientInfoText
    /\ UserIdOf(req'[c][1]) # None
    /\ UserIdOf(req'[c][1])[1] \in DOMAIN sessions
    /\ uid[c] \in DOMAIN sessions
    /\ pc'[c] = "loop"

\* C24: a GetClientInfoText naming a live target, from a session whose
\* account has GET_USER_INFO, is answered with a success reply that carries
\* a Data field; from a guest or an account without GET_USER_INFO it is
\* answered with a PermissionDenied reply.
C24_ClientInfoReply ==
    [][\A c \in Conns :
          ReadsGetClientInfoText(c)
            => /\ Len(wrote'[c]) = 1
               /\ wrote'[c][1].is_reply
               /\ wrote'[c][1].id = req'[c][1].id
               /\ IF check_privilege(sessions, accounts, uid[c], GET_USER_INFO)
                  THEN /\ wrote'[c][1].error_code = NoError
                       /\ \E i \in 1..Len(wrote'[c][1].fields) :
                             wrote'[c][1].fields[i].id = F_Data
                  ELSE wrote'[c][1] = create_error_reply(req'[c][1], PermissionDenied)]_vars

(***************************************************************************)
(* Fields with an unknown id                                               *)
(***************************************************************************)
\* the fields whose id is in the field table, in order
RECURSIVE KnownFields(_)
KnownFields(fields) ==
    IF fields = << >> THEN << >>
    ELSE (IF fields[1].id \in KnownFieldIds THEN <<fields[1]>> ELSE << >>)
         \o KnownFields(Tail(fields))

\* the frame without its fields of unknown id
Stripped(frame) == [frame EXCEPT !.fields = KnownFields(frame.fields)]

\* task c has just read a frame of a known type that carries a field with
\* an id outside the field table
ReadsUnknownField(c) ==
    /\ ReadsFrame(c)
    /\ req'[c][1].type \in KnownTransactionTypes
    /\ \E i \in 1..Len(req'[c][1].fields) : req'[c][1].fields[i].id \notin KnownFieldIds
    /\ uid[c] \in DOMAIN sessions

\* C28: a frame that carries a well-formed field with an id outside the
\* field table decodes without error: the handler gets the frame with its
\* known fields and without the unknown one, and the connection is not
\* closed.
C28_UnknownFieldDropped ==
    [][\A c \in Conns :
          ReadsUnknownField(c)
            => LET result == Dispatched(c, Stripped(req'[c][1]))
               IN /\ pc'[c] = "loop"
                  /\ uid[c] \in DOMAIN sessions'
                  /\ chan' = broadcast(chan, result.events)
                  /\ accounts' = result.accounts]_vars

(***************************************************************************)
(* The text of a ChatMessage frame                                         *)
(***************************************************************************)
\* t is the nickname right-aligned and cut to exactly 13 characters
RightAligned13(t, nickname) ==
    LET k == IF Len(nickname) < 13 THEN Len(nickname) ELSE 13
    IN /\ Len(t) = 13
       /\ \A i \in 1..(13 - k) : t[i] = 32
       /\ \A i \in 1..k : t[13 - k + i] = nickname[i]

\* the value of the frame's Data field
DataOf(frame) == LastField(frame.fields, F_Data, "Binary")

\* the value of the request's ChatOptions field
ChatOptionsOf(frame) == LastField(frame.fields, F_ChatOptions, "Integer")

\* task c is delivered a ChatMessage event with a UTF-8 body while the
\* sender's session is registered
DeliversChat(c) ==
    /\ Delivers(c)
    /\ chan[rx[c]].kind = "ChatMessage"
    /\ chan[rx[c]].user_id \in DOMAIN sessions
    /\ is_utf8(chan[rx[c]].text)

Allocated(c) == pc[c] \in {"register", "handshake", "loop"} \/ (pc[c] = "closed" /\ ~Dropped(c))

\* C29: every user_id allocate_user_id returns, whatever the counter started
\* from and however many ids were allocated before, the wrap included, is in
\* 1..65535 and never 0; so is every key of the registry.
C29_AllocatedIdInRange ==
    /\ \A c \in Conns : Allocated(c) => uid[c] \in 1..(U16 - 1)
    /\ \A k \in DOMAIN sessions : k \in 1..(U16 - 1)

\* the counter has wrapped: one connection was given 1 by the wrap branch
\* while the counter was 0, and another was given 2 after it found 1 taken
C29_Witness ==
    \E c, d \in Conns :
       /\ pc[c] = "handshake" /\ uid[c] = 1
       /\ pc[d] = "handshake" /\ uid[d] = 2
       /\ next_user_id = 3

(***************************************************************************)
(* The codec                                                               *)
(***************************************************************************)
\* decode has been called on a buffer that holds a whole header
DecodedHeader == call # None /\ call.op = "decode" /\ call.ret # None
                 /\ BufLen(call.arg) >= TransactionHeader_SIZE

\* C25: on a buffer whose first 20 bytes are a header with data_size above
\* 32768, decode returns TransactionTooLarge at once, however much of the
\* payload is buffered: it reserves nothing and does not first ask for more
\* bytes.  A data_size of 0 and one of 32768 are accepted.
C25_TooLargeAtOnce ==
    DecodedHeader
      => LET data_size == header_from_bytes(call.arg).data_size
             ret == call.ret[1]
         IN /\ data_size > MAX_TRANSACTION_SIZE
                  => ret.status = "TransactionTooLarge" /\ ret.reserved = 0
            /\ data_size \in {0, MAX_TRANSACTION_SIZE}
                  => ret.status # "TransactionTooLarge"

\* a transaction the codec is meant to carry: a known type, known field
\* ids, strings that are UTF-8, integers of 32 bits, sizes within the limits
WellFormed(item) ==
    /\ item.type \in KnownTransactionTypes
    /\ item.flags \in 0..255
    /\ Len(encode_fields(item.fields)) <= MAX_TRANSACTION_SIZE
    /\ \A i \in 1..Len(item.fields) :
          LET f == item.fields[i]
          IN /\ f.id \in KnownFieldIds
             /\ f.kind = "String" => is_utf8(f.val)
             /\ f.kind = "Integer" => f.val >= -2147483647 - 1 /\ f.val <= 2147483647

\* C26: decode(encode(T)) = T for every well-formed transaction T: the same
\* flags, is_reply, type, id and error_code, and for each field the same id,
\* the same variant and the same value (an integer travels in the smallest
\* signed width that holds it and comes back with its value).
C26_RoundTrip ==
    (call # None /\ call.op = "round_trip" /\ call.ret # None /\ WellFormed(call.arg))
      => /\ call.ret[1].status = "Some"
         /\ call.ret[1].item = Some(call.arg)

\* C27: for every 64-bit mask M, bits 50..63 included,
\* from_wire_format(to_wire_format(M)) = M; on a little-endian build bit k
\* of M is bit 7 - (k mod 8) of wire byte k div 8.
C27_WireRoundTrip ==
    (call # None /\ call.op = "wire" /\ call.ret # None)
      => LET ret == call.ret[1]
         IN /\ ret.mask = call.arg
            /\ call.endian = "little"
                  => \A k \in 0..63 :
                        (k \in call.arg) <=> BitOf(ret.wire[(k \div 8) + 1], 7 - (k % 8)) = 1

(***************************************************************************)
(* The field count and the bytes of the payload                            *)
(***************************************************************************)
\* the position of the last byte the declared fields take, walking left
\* field headers from position pos; a position past last when a field
\* header or its data does not fit
RECURSIVE FieldsEnd(_, _, _, _)
FieldsEnd(src, last, pos, left) ==
    IF left = 0 THEN pos - 1
    ELSE IF pos + FieldHeader_SIZE - 1 > last THEN last + 1
    ELSE FieldsEnd(src, last, pos + FieldHeader_SIZE + U16At(src, pos + 2), left - 1)

\* decode has been called on a buffer that holds a whole frame within the
\* size limit, of a known type, with a payload
DecodedPayload ==
    /\ DecodedHeader
    /\ header_from_bytes(call.arg).data_size \in 1..MAX_TRANSACTION_SIZE
    /\ BufLen(call.arg) >= TransactionHeader_SIZE + header_from_bytes(call.arg).data_size
    /\ header_from_bytes(call.arg).transaction_type \in KnownTransactionTypes

\* C31: decode rejects with InvalidFieldData every payload whose declared
\* field count does not match exactly the bytes available: a count that
\* needs more bytes than data_size provides, and a payload with bytes left
\* over after the last declared field.
C31_CountMatchesBytes ==
    DecodedPayload
      => LET last == TransactionHeader_SIZE + header_from_bytes(call.arg).data_size
             end == IF last < TransactionHeader_SIZE + 2 THEN last + 1
                    ELSE FieldsEnd(call.arg, last, TransactionHeader_SIZE + 3,
                                   U16At(call.arg, TransactionHeader_SIZE + 1))
         IN end # last => call.ret[1].status = "InvalidFieldData"

(***************************************************************************)
(* References into the session map across suspensions                      *)
(***************************************************************************)
\* the task of connection c is suspended at an await: reading the
\* handshake, in select!, awaiting the store, or between two sends
Suspended(c) ==
    pc[c] \in {"handshake", "loop", "agreed_query", "agreed_replied", "push_query"}

\* C32: no connection task is suspended at an await point (account-store
\* query, socket write, broadcast receive) while it holds a reference into
\* the session map; the access lookups of the Agreed handler and of the
\* UserAccess push release the session entry before they await the store,
\* so a kick of the session is never kept waiting by them.
C32_NoRefAcrossAwait ==
    /\ \A c \in Conns : Suspended(c) => guard[c] = None
    /\ \A user_id \in DOMAIN sessions : Unguarded(user_id, 0)

(***************************************************************************)
(* The connection limit and the registry                                   *)
(***************************************************************************)
\* C36: the registry never holds more sessions than max_connections, also
\* when connections are accepted back to back before the tasks spawned for
\* the earlier ones have registered their sessions.
C36_RegistryWithinLimit == session_count(sessions) <= max_connections

(***************************************************************************)
(* A kicked task and the next holder of its id                             *)
(***************************************************************************)
\* the session of connection c was removed by a kick
WasKicked(c) == \E k \in kicked : k.conn = c

\* the task of connection c takes a step: it reads a frame, receives an
\* event or leaves its loop
TaskActs(c) == nreq'[c] # nreq[c] \/ rx'[c] # rx[c] \/ pc'[c] # pc[c]

\* the events published in this step
Published == SubSeq(chan', Len(chan) + 1, Len(chan'))

\* C37: a connection task only reads, mutates, speaks for or unregisters
\* the session it registered itself.  After its session was removed by a
\* kick and its user_id was allocated to a new connection, the steps of the
\* stale task (touch, Login, Agreed, SendChat, teardown) leave the new
\* connection's session as it is and publish nothing under its id.
C37_StaleTaskKeepsOff ==
    [][\A c \in Conns :
          (/\ WasKicked(c)
           /\ TaskActs(c)
           /\ uid[c] \in DOMAIN sessions
           /\ sessions[uid[c]].address # c)
          => /\ uid[c] \in DOMAIN sessions'
             /\ sessions'[uid[c]] = sessions[uid[c]]
             /\ \A i \in 1..Len(Published) : Published[i].user_id # uid[c]]_vars

(***************************************************************************)
(* Agreed before a login                                                   *)
(***************************************************************************)
\* task c has just read an Agreed on a connection that completed the
\* handshake and has not logged in
ReadsAgreedBeforeLogin(c) ==
    /\ ReadsFrame(c)
    /\ ~DecodeFails(req'[c][1])
    /\ req'[c][1].type = TT_Agreed
    /\ uid[c] \in DOMAIN sessions
    /\ sessions[uid[c]].address = c
    /\ sessions[uid[c]].auth_state = LoginPending

\* C38: UserJoined is published only for a session that is Authenticated.
\* An Agreed on a connection whose session is LoginPending publishes no
\* UserJoined, leaves the session's nickname, icon and flags as they are,
\* and is not followed by a UserAccess push.
C38_AgreedNeedsLogin ==
    [][/\ \A i \in 1..Len(Published) :
             Published[i].kind = "UserJoined"
                => /\ Published[i].user_id \in DOMAIN sessions
                   /\ is_authenticated(sessions[Published[i].user_id])
       /\ \A c \in Conns :
             ReadsAgreedBeforeLogin(c)
               => /\ Published = << >>
                  /\ uid[c] \in DOMAIN sessions'
                  /\ sessions'[uid[c]].nickname = sessions[uid[c]].nickname
                  /\ sessions'[uid[c]].icon_id = sessions[uid[c]].icon_id
                  /\ sessions'[uid[c]].flags = sessions[uid[c]].flags
                  /\ \A i \in 1..Len(wrote'[c]) : wrote'[c][i].type # TT_UserAccess]_vars

(***************************************************************************)
(* A stream of frames in chunks                                            *)
(***************************************************************************)
\* the transactions a stream holds, each frame decoded from a buffer of
\* its own
RECURSIVE FramesOf(_)
FramesOf(stream) ==
    IF stream = << >> THEN << >>
    ELSE LET size == TransactionHeader_SIZE + header_from_bytes(Buffer(stream, 0)).data_size
         IN decode(Buffer(SubSeq(stream, 1, size), 0)).item
            \o FramesOf(SubSeq(stream, size + 1, Len(stream)))

\* the bytes the decoded transactions took in the stream
RECURSIVE SizeOf(_, _)
SizeOf(stream, n) ==
    IF n = 0 THEN 0
    ELSE LET size == TransactionHeader_SIZE + header_from_bytes(Buffer(stream, 0)).data_size
         IN size + SizeOf(SubSeq(stream, size + 1, Len(stream)), n - 1)

\* a stream is being read
ReadingStream == call # None /\ call.op = "stream"

\* C33: decode consumes no byte when it returns Ok(None) and exactly
\* 20 + data_size bytes when it returns a transaction, so a stream that is
\* the concatenation of well-formed frames decodes to the same sequence of
\* transactions however it is split into chunks: what has been decoded is
\* always the first frames of the stream, the buffer holds exactly the
\* bytes fed and not yet decoded, and once the whole stream has arrived
\* and decode asks for more, every frame has been handed on.
C33_ChunkingDoesNotMatter ==
    /\ [](ReadingStream
            => LET r == call.ret[1]
               IN /\ ~r.failed
                  /\ Len(r.out) <= Len(FramesOf(call.arg))
                  /\ r.out = SubSeq(FramesOf(call.arg), 1, Len(r.out))
                  /\ r.buf.bytes = SubSeq(call.arg, SizeOf(call.arg, Len(r.out)) + 1, r.fed)
                  /\ (r.fed = Len(call.arg) /\ decode(r.buf).status = "None")
                        => r.out = FramesOf(call.arg))
    /\ [][(ReadingStream /\ StreamDecode)
            => LET r == call.ret[1]
                   got == decode(r.buf)
               IN /\ got.status = "None" => call'.ret[1].buf = r.buf
                  /\ got.status = "Some"
                        => BufLen(call'.ret[1].buf)
                             = BufLen(r.buf) - (TransactionHeader_SIZE
                                                + header_from_bytes(r.buf).data_size)]_vars

\* a stream of two frames has been decoded whole, after a decode that found
\* only part of a frame in the buffer
C33_Witness ==
    /\ ReadingStream
    /\ call.ret[1].waited
    /\ Len(call.ret[1].out) = 2
    /\ call.ret[1].out = FramesOf(call.arg)
    /\ call.ret[1].fed = Len(call.arg)
    /\ call.ret[1].buf = Buffer(<< >>, 0)

(***************************************************************************)
(* The account store changes only with a success reply                     *)
(***************************************************************************)
\* connection c reads an account request that decodes
ReadsAccountRequest(c) ==
    /\ ReadsFrame(c)
    /\ ~DecodeFails(req'[c][1])
    /\ req'[c][1].type \in AccountRequestTypes

\* the step writes an error reply to connection c
AnsweredWithError(c) ==
    /\ wrote'[c] # << >>
    /\ wrote'[c][1].error_code # 0

UniqueLogins == \A a, b \in accounts : NoCase(a.login) = NoCase(b.login) => a = b

\* the login a NewUser frame names
NewLoginOf(frame) == xor_password(LastField(frame.fields, F_UserLogin, "Binary")[1])

\* connection c's NewUser request comes to its end in this step
NewUserEnds(c) ==
    \/ /\ pc[c] = "new_user_insert"
       /\ pc'[c] # "new_user_insert"
    \/ /\ pc[c] = "loop"
       /\ ReadsFrame(c)
       /\ req'[c][1].type = TT_NewUser
       /\ pc'[c] # "new_user_insert"

\* C35: logins stay unique without regard to case when two privileged
\* connections send NewUser for the same login (or for logins that differ
\* only in case) at the same time: at most one account is created, and the
\* request that created none is answered with the AlreadyExists error reply.
C35_OneCreatedOtherAlreadyExists ==
    /\ []UniqueLogins
    /\ [][\A c \in Conns :
             (/\ NewUserEnds(c)
              /\ account_exists(accounts, NewLoginOf(req'[c][1]))
              /\ pc'[c] = "loop")
               => /\ accounts' = accounts
                  /\ wrote'[c] = <<create_error_reply(req'[c][1], AlreadyExists)>>]_vars

(***************************************************************************)
(* Passwords: what is stored and what Login compares                       *)
(***************************************************************************)
\* the scrambled password a request carries
SentPassword(frame) == LastField(frame.fields, F_UserPassword, "Binary")

\* connection c's request comes to its end in this step
RequestEnds(c) ==
    \/ pc[c] = "new_user_insert" /\ pc'[c] # "new_user_insert"
    \/ pc[c] = "loop" /\ ReadsFrame(c) /\ pc'[c] # "new_user_insert"

\* C39: storing a password and verifying it agree.  After NewUser or
\* SetUser with the scrambled form of a password P the stored password_hash
\* is the byte-wise complement of P, which is the scrambled form as sent; a
\* Login to an account is answered with success when the scrambled password
\* it sends is byte-equal to the stored hash and is rejected with an error
\* reply for any other password; and scrambling twice gives the bytes back.
C39_StoredPasswordVerifies ==
    /\ [](\A c \in Conns :
            (req[c] # None /\ SentPassword(req[c][1]) # None)
              => xor_password(xor_password(SentPassword(req[c][1])[1]))
                   = SentPassword(req[c][1])[1])
    /\ [][\A c \in Conns :
             (RequestEnds(c) /\ ~DecodeFails(req'[c][1]))
               => LET frame == req'[c][1]
                      sent == SentPassword(frame)
                      login == LastField(frame.fields, F_UserLogin, "Binary")
                  IN /\ (/\ frame.type \in {TT_NewUser, TT_SetUser}
                         /\ accounts' # accounts
                         /\ sent # None)
                          => get_account_by_login(accounts', xor_password(login[1]))[1]
                               .password_hash = sent[1]
                     /\ (/\ frame.type = TT_Login
                         /\ login # None /\ login[1] # << >>
                         /\ sent # None /\ sent[1] # << >>
                         /\ get_account_by_login(accounts, xor_password(login[1])) # None
                         /\ pc'[c] = "loop")
                          => /\ wrote'[c] # << >>
                             /\ wrote'[c][1].error_code = 0
                                  <=> get_account_by_login(accounts, xor_password(login[1]))[1]
                                        .password_hash = sent[1]]_vars

(***************************************************************************)
(* allocate_user_id comes to an end                                        *)
(***************************************************************************)
\* allocate_user_id is running or has returned
Allocating == call # None /\ call.op = "allocate"

\* C40: allocate_user_id terminates and returns a free id whenever one of
\* the ids it hands out is not in the registry, for any counter value and
\* any set of occupied ids: the loop takes at most 65536 turns, it does not
\* pass over the only free id, and the id it returns is one the registry
\* lacks.
C40_AllocationEnds ==
    Allocating
      => /\ call.arg.tries <= U16
         /\ call.ret # None => call.ret[1] \in call.arg.free
         /\ call.ret = None => ENABLED AllocateScan

\* the loop has gone through the whole range and round the wrap before it
\* came to the only free id, the one just behind the counter
C40_Witness ==
    /\ Allocating
    /\ call.arg.free = {U16 - 4}
    /\ call.ret = Some(U16 - 4)
    /\ call.arg.tries = U16 - 1
    /\ next_user_id = U16 - 3

====
